---- MODULE Spec2Model ----
(***************************************************************************)
(* A model of templates/generate_project.py: the command line entry point  *)
(* main(), ProjectGenerator.generate_project and the operations it calls,  *)
(* and the text substitution ProjectGenerator.replace_variables.            *)
(*                                                                         *)
(* Text is a sequence of one-character strings, so that str.strip,         *)
(* str.lower, str.replace and int() are computed character by character.   *)
(* A path is a sequence of path components.  The file system is a function *)
(* from the paths that exist to [kind, content].                           *)
(***************************************************************************)
EXTENDS Integers, Sequences, FiniteSets, TLC

VARIABLES
    pc,        \* position of the process in main() / generate_project()
    argv,      \* the options given on the command line
    args,      \* argparse namespace: framework, name, base_only, list
    returned,  \* what the last call of generate_from_base_template returned
    fs,        \* the file system
    fs0,       \* the file system when the process started
    config,    \* the dict built by get_project_config
    today,     \* the date datetime.now() reports
    asked,     \* the prompts answered so far
    attempts,  \* select_framework: inputs read by the loop in progress
    custom,    \* number of metadata prompts answered with text other than blanks
    lastRaw,   \* the text typed at the prompt just answered
    exitCode,  \* process exit status, NoExit while running
    log,       \* the operations performed so far, in order
    todo,      \* copy_framework_template: files rglob has not yielded yet
    copied,    \* copy_framework_template: copied_files
    content,   \* replace_variables: its content argument
    result,    \* replace_variables: its local variable result
    idx        \* replace_variables: position in replacements.items()

vars == <<pc, argv, args, returned, fs, fs0, config, today, asked, attempts, custom, lastRaw, exitCode,
          log, todo, copied, content, result, idx>>

(***************************************************************************)
(* Bounds of the model.                                                    *)
(***************************************************************************)
\* inputs one run gives to select_framework, whose loop has no cap
MaxSelectAttempts == 2
\* regular files in a framework template tree
MaxTemplateFiles == 2
\* metadata prompts of one run answered with text of the user's own
MaxCustomAnswers == 1
\* pieces a short template text is put together from
MaxPieces == 2
\* truncate_string: the longest value, and the largest max_length
MaxValueLen == 4
MaxLimit == 5

(***************************************************************************)
(* Text.                                                                   *)
(***************************************************************************)
\* ---- CharTable: begin
CharTable ==
    "" :> <<>> @@
    " " :> <<" ">> @@
    "  " :> <<" ", " ">> @@
    " + " :> <<" ", "+", " ">> @@
    " - " :> <<" ", "-", " ">> @@
    " 3 " :> <<" ", "3", " ">> @@
    " Y " :> <<" ", "Y", " ">> @@
    " my-api " :> <<" ", "m", "y", "-", "a", "p", "i", " ">> @@
    " project" :> <<" ", "p", "r", "o", "j", "e", "c", "t">> @@
    " using the project template system.\n" :> <<" ", "u", "s", "i", "n", "g", " ", "t", "h", "e", " ", "p", "r", "o", "j", "e", "c", "t", " ", "t", "e", "m", "p", "l", "a", "t", "e", " ", "s", "y", "s", "t", "e", "m", ".", "\n">> @@
    "# " :> <<"#", " ">> @@
    "# Ada" :> <<"#", " ", "A", "d", "a">> @@
    "# Install dependencies" :> <<"#", " ", "I", "n", "s", "t", "a", "l", "l", " ", "d", "e", "p", "e", "n", "d", "e", "n", "c", "i", "e", "s">> @@
    "# Install dependencies\n# Install dependencies\n" :> <<"#", " ", "I", "n", "s", "t", "a", "l", "l", " ", "d", "e", "p", "e", "n", "d", "e", "n", "c", "i", "e", "s", "\n", "#", " ", "I", "n", "s", "t", "a", "l", "l", " ", "d", "e", "p", "e", "n", "d", "e", "n", "c", "i", "e", "s", "\n">> @@
    "# Run application" :> <<"#", " ", "R", "u", "n", " ", "a", "p", "p", "l", "i", "c", "a", "t", "i", "o", "n">> @@
    "# Run application\n# Run application\n" :> <<"#", " ", "R", "u", "n", " ", "a", "p", "p", "l", "i", "c", "a", "t", "i", "o", "n", "\n", "#", " ", "R", "u", "n", " ", "a", "p", "p", "l", "i", "c", "a", "t", "i", "o", "n", "\n">> @@
    "# Run tests" :> <<"#", " ", "R", "u", "n", " ", "t", "e", "s", "t", "s">> @@
    "# Run tests\n# Run tests\n" :> <<"#", " ", "R", "u", "n", " ", "t", "e", "s", "t", "s", "\n", "#", " ", "R", "u", "n", " ", "t", "e", "s", "t", "s", "\n">> @@
    "# Run tests\npoetry run behave && poetry run pytest\n" :> <<"#", " ", "R", "u", "n", " ", "t", "e", "s", "t", "s", "\n", "p", "o", "e", "t", "r", "y", " ", "r", "u", "n", " ", "b", "e", "h", "a", "v", "e", " ", "&", "&", " ", "p", "o", "e", "t", "r", "y", " ", "r", "u", "n", " ", "p", "y", "t", "e", "s", "t", "\n">> @@
    "# demo (FastAPI): at least 80%\n" :> <<"#", " ", "d", "e", "m", "o", " ", "(", "F", "a", "s", "t", "A", "P", "I", ")", ":", " ", "a", "t", " ", "l", "e", "a", "s", "t", " ", "8", "0", "%", "\n">> @@
    "# {{AUTHOR}}" :> <<"#", " ", "{", "{", "A", "U", "T", "H", "O", "R", "}", "}">> @@
    "# {{PROJECT_NAME}} ({{FRAMEWORK}}): at least {{COVERAGE_THRESHOLD}}%\n" :> <<"#", " ", "{", "{", "P", "R", "O", "J", "E", "C", "T", "_", "N", "A", "M", "E", "}", "}", " ", "(", "{", "{", "F", "R", "A", "M", "E", "W", "O", "R", "K", "}", "}", ")", ":", " ", "a", "t", " ", "l", "e", "a", "s", "t", " ", "{", "{", "C", "O", "V", "E", "R", "A", "G", "E", "_", "T", "H", "R", "E", "S", "H", "O", "L", "D", "}", "}", "%", "\n">> @@
    "# {{PROJECT_NAME}}\n" :> <<"#", " ", "{", "{", "P", "R", "O", "J", "E", "C", "T", "_", "N", "A", "M", "E", "}", "}", "\n">> @@
    "%\n- All code must have corresponding tests\n\n## CI/CD\n\nPipeline stages: <U+0060>lint<U+0060> <U+2192> <U+0060>test<U+0060> <U+2192> <U+0060>build<U+0060> <U+2192> <U+0060>deploy<U+0060>\n\nSee <U+0060>.gitlab-ci.yml<U+0060> for details.\n\n## Author\n\n" :> <<"%", "\n", "-", " ", "A", "l", "l", " ", "c", "o", "d", "e", " ", "m", "u", "s", "t", " ", "h", "a", "v", "e", " ", "c", "o", "r", "r", "e", "s", "p", "o", "n", "d", "i", "n", "g", " ", "t", "e", "s", "t", "s", "\n", "\n", "#", "#", " ", "C", "I", "/", "C", "D", "\n", "\n", "P", "i", "p", "e", "l", "i", "n", "e", " ", "s", "t", "a", "g", "e", "s", ":", " ", "<U+0060>", "l", "i", "n", "t", "<U+0060>", " ", "<U+2192>", " ", "<U+0060>", "t", "e", "s", "t", "<U+0060>", " ", "<U+2192>", " ", "<U+0060>", "b", "u", "i", "l", "d", "<U+0060>", " ", "<U+2192>", " ", "<U+0060>", "d", "e", "p", "l", "o", "y", "<U+0060>", "\n", "\n", "S", "e", "e", " ", "<U+0060>", ".", "g", "i", "t", "l", "a", "b", "-", "c", "i", ".", "y", "m", "l", "<U+0060>", " ", "f", "o", "r", " ", "d", "e", "t", "a", "i", "l", "s", ".", "\n", "\n", "#", "#", " ", "A", "u", "t", "h", "o", "r", "\n", "\n">> @@
    "+1" :> <<"+", "1">> @@
    "+2" :> <<"+", "2">> @@
    "+3" :> <<"+", "3">> @@
    "-1" :> <<"-", "1">> @@
    "-project" :> <<"-", "p", "r", "o", "j", "e", "c", "t">> @@
    "..." :> <<".", ".", ".">> @@
    "0" :> <<"0">> @@
    "0123456789" :> <<"0", "1", "2", "3", "4", "5", "6", "7", "8", "9">> @@
    "1" :> <<"1">> @@
    "1.0" :> <<"1", ".", "0">> @@
    "1.5" :> <<"1", ".", "5">> @@
    "2" :> <<"2">> @@
    "3" :> <<"3">> @@
    "3.11.x" :> <<"3", ".", "1", "1", ".", "x">> @@
    "4" :> <<"4">> @@
    "5.3+" :> <<"5", ".", "3", "+">> @@
    "80" :> <<"8", "0">> @@
    "90" :> <<"9", "0">> @@
    "<U+0060><U+0060><U+0060>bash\n# Install dependencies\n" :> <<"<U+0060>", "<U+0060>", "<U+0060>", "b", "a", "s", "h", "\n", "#", " ", "I", "n", "s", "t", "a", "l", "l", " ", "d", "e", "p", "e", "n", "d", "e", "n", "c", "i", "e", "s", "\n">> @@
    "A " :> <<"A", " ">> @@
    "A TypeScript + Node.js + Express project" :> <<"A", " ", "T", "y", "p", "e", "S", "c", "r", "i", "p", "t", " ", "+", " ", "N", "o", "d", "e", ".", "j", "s", " ", "+", " ", "E", "x", "p", "r", "e", "s", "s", " ", "p", "r", "o", "j", "e", "c", "t">> @@
    "A custom stack" :> <<"A", " ", "c", "u", "s", "t", "o", "m", " ", "s", "t", "a", "c", "k">> @@
    "A demo" :> <<"A", " ", "d", "e", "m", "o">> @@
    "ABCDEFGHIJKLMNOPQRSTUVWXYZ" :> <<"A", "B", "C", "D", "E", "F", "G", "H", "I", "J", "K", "L", "M", "N", "O", "P", "Q", "R", "S", "T", "U", "V", "W", "X", "Y", "Z">> @@
    "Ada" :> <<"A", "d", "a">> @@
    "Behave" :> <<"B", "e", "h", "a", "v", "e">> @@
    "Behave + pytest" :> <<"B", "e", "h", "a", "v", "e", " ", "+", " ", "p", "y", "t", "e", "s", "t">> @@
    "Behavior-driven development with Behave and Python" :> <<"B", "e", "h", "a", "v", "i", "o", "r", "-", "d", "r", "i", "v", "e", "n", " ", "d", "e", "v", "e", "l", "o", "p", "m", "e", "n", "t", " ", "w", "i", "t", "h", " ", "B", "e", "h", "a", "v", "e", " ", "a", "n", "d", " ", "P", "y", "t", "h", "o", "n">> @@
    "Custom" :> <<"C", "u", "s", "t", "o", "m">> @@
    "Express" :> <<"E", "x", "p", "r", "e", "s", "s">> @@
    "FastAPI" :> <<"F", "a", "s", "t", "A", "P", "I">> @@
    "Flask" :> <<"F", "l", "a", "s", "k">> @@
    "Go" :> <<"G", "o">> @@
    "HO" :> <<"H", "O">> @@
    "Hello " :> <<"H", "e", "l", "l", "o", " ">> @@
    "Hello demo" :> <<"H", "e", "l", "l", "o", " ", "d", "e", "m", "o">> @@
    "Hello {{PROJECT_NAME}}" :> <<"H", "e", "l", "l", "o", " ", "{", "{", "P", "R", "O", "J", "E", "C", "T", "_", "N", "A", "M", "E", "}", "}">> @@
    "Istanbul" :> <<"I", "s", "t", "a", "n", "b", "u", "l">> @@
    "Jest" :> <<"J", "e", "s", "t">> @@
    "Modern Python web API with FastAPI, Poetry, and pytest" :> <<"M", "o", "d", "e", "r", "n", " ", "P", "y", "t", "h", "o", "n", " ", "w", "e", "b", " ", "A", "P", "I", " ", "w", "i", "t", "h", " ", "F", "a", "s", "t", "A", "P", "I", ",", " ", "P", "o", "e", "t", "r", "y", ",", " ", "a", "n", "d", " ", "p", "y", "t", "e", "s", "t">> @@
    "Poetry" :> <<"P", "o", "e", "t", "r", "y">> @@
    "Python" :> <<"P", "y", "t", "h", "o", "n">> @@
    "Python + Behave (BDD)" :> <<"P", "y", "t", "h", "o", "n", " ", "+", " ", "B", "e", "h", "a", "v", "e", " ", "(", "B", "D", "D", ")">> @@
    "Python + FastAPI" :> <<"P", "y", "t", "h", "o", "n", " ", "+", " ", "F", "a", "s", "t", "A", "P", "I">> @@
    "TypeScript" :> <<"T", "y", "p", "e", "S", "c", "r", "i", "p", "t">> @@
    "TypeScript + Node.js + Express" :> <<"T", "y", "p", "e", "S", "c", "r", "i", "p", "t", " ", "+", " ", "N", "o", "d", "e", ".", "j", "s", " ", "+", " ", "E", "x", "p", "r", "e", "s", "s">> @@
    "TypeScript backend with Express, Jest, and ESLint" :> <<"T", "y", "p", "e", "S", "c", "r", "i", "p", "t", " ", "b", "a", "c", "k", "e", "n", "d", " ", "w", "i", "t", "h", " ", "E", "x", "p", "r", "e", "s", "s", ",", " ", "J", "e", "s", "t", ",", " ", "a", "n", "d", " ", "E", "S", "L", "i", "n", "t">> @@
    "Y" :> <<"Y">> @@
    "Your Team" :> <<"Y", "o", "u", "r", " ", "T", "e", "a", "m">> @@
    "\n## Stack\n" :> <<"\n", "#", "#", " ", "S", "t", "a", "c", "k", "\n">> @@
    "\n- " :> <<"\n", "-", " ">> @@
    "\n- **CI/CD**: GitLab CI/CD\n\n## Getting Started\n\n### Prerequisites\n\n- " :> <<"\n", "-", " ", "*", "*", "C", "I", "/", "C", "D", "*", "*", ":", " ", "G", "i", "t", "L", "a", "b", " ", "C", "I", "/", "C", "D", "\n", "\n", "#", "#", " ", "G", "e", "t", "t", "i", "n", "g", " ", "S", "t", "a", "r", "t", "e", "d", "\n", "\n", "#", "#", "#", " ", "P", "r", "e", "r", "e", "q", "u", "i", "s", "i", "t", "e", "s", "\n", "\n", "-", " ">> @@
    "\n- **Framework**: " :> <<"\n", "-", " ", "*", "*", "F", "r", "a", "m", "e", "w", "o", "r", "k", "*", "*", ":", " ">> @@
    "\n- **Package Manager**: " :> <<"\n", "-", " ", "*", "*", "P", "a", "c", "k", "a", "g", "e", " ", "M", "a", "n", "a", "g", "e", "r", "*", "*", ":", " ">> @@
    "\n- **Testing**: " :> <<"\n", "-", " ", "*", "*", "T", "e", "s", "t", "i", "n", "g", "*", "*", ":", " ">> @@
    "\n- Docker\n\n### Installation\n\n<U+0060><U+0060><U+0060>bash\n# Install dependencies\n" :> <<"\n", "-", " ", "D", "o", "c", "k", "e", "r", "\n", "\n", "#", "#", "#", " ", "I", "n", "s", "t", "a", "l", "l", "a", "t", "i", "o", "n", "\n", "\n", "<U+0060>", "<U+0060>", "<U+0060>", "b", "a", "s", "h", "\n", "#", " ", "I", "n", "s", "t", "a", "l", "l", " ", "d", "e", "p", "e", "n", "d", "e", "n", "c", "i", "e", "s", "\n">> @@
    "\n<U+0060><U+0060><U+0060>\n" :> <<"\n", "<U+0060>", "<U+0060>", "<U+0060>", "\n">> @@
    "\n<U+0060><U+0060><U+0060>\n\n## Development\n\nSee <U+0060>COPILOT_INSTRUCTIONS.md<U+0060> for detailed coding standards and guidelines.\n\n## Testing\n\n- Minimum coverage: " :> <<"\n", "<U+0060>", "<U+0060>", "<U+0060>", "\n", "\n", "#", "#", " ", "D", "e", "v", "e", "l", "o", "p", "m", "e", "n", "t", "\n", "\n", "S", "e", "e", " ", "<U+0060>", "C", "O", "P", "I", "L", "O", "T", "_", "I", "N", "S", "T", "R", "U", "C", "T", "I", "O", "N", "S", ".", "m", "d", "<U+0060>", " ", "f", "o", "r", " ", "d", "e", "t", "a", "i", "l", "e", "d", " ", "c", "o", "d", "i", "n", "g", " ", "s", "t", "a", "n", "d", "a", "r", "d", "s", " ", "a", "n", "d", " ", "g", "u", "i", "d", "e", "l", "i", "n", "e", "s", ".", "\n", "\n", "#", "#", " ", "T", "e", "s", "t", "i", "n", "g", "\n", "\n", "-", " ", "M", "i", "n", "i", "m", "u", "m", " ", "c", "o", "v", "e", "r", "a", "g", "e", ":", " ">> @@
    "\n<U+0060><U+0060><U+0060>\n\n## Project Structure\n\n<U+0060><U+0060><U+0060>\n" :> <<"\n", "<U+0060>", "<U+0060>", "<U+0060>", "\n", "\n", "#", "#", " ", "P", "r", "o", "j", "e", "c", "t", " ", "S", "t", "r", "u", "c", "t", "u", "r", "e", "\n", "\n", "<U+0060>", "<U+0060>", "<U+0060>", "\n">> @@
    "\n\n" :> <<"\n", "\n">> @@
    "\n\n# Run application\n" :> <<"\n", "\n", "#", " ", "R", "u", "n", " ", "a", "p", "p", "l", "i", "c", "a", "t", "i", "o", "n", "\n">> @@
    "\n\n# Run tests\n" :> <<"\n", "\n", "#", " ", "R", "u", "n", " ", "t", "e", "s", "t", "s", "\n">> @@
    "\n\n## Generated\n\nThis project was generated on " :> <<"\n", "\n", "#", "#", " ", "G", "e", "n", "e", "r", "a", "t", "e", "d", "\n", "\n", "T", "h", "i", "s", " ", "p", "r", "o", "j", "e", "c", "t", " ", "w", "a", "s", " ", "g", "e", "n", "e", "r", "a", "t", "e", "d", " ", "o", "n", " ">> @@
    "\n\n## Stack\n\n- **Language**: " :> <<"\n", "\n", "#", "#", " ", "S", "t", "a", "c", "k", "\n", "\n", "-", " ", "*", "*", "L", "a", "n", "g", "u", "a", "g", "e", "*", "*", ":", " ">> @@
    "abc" :> <<"a", "b", "c">> @@
    "abcdefghijklmnopqrstuvwxyz" :> <<"a", "b", "c", "d", "e", "f", "g", "h", "i", "j", "k", "l", "m", "n", "o", "p", "q", "r", "s", "t", "u", "v", "w", "x", "y", "z">> @@
    "cov" :> <<"c", "o", "v">> @@
    "coverage.py" :> <<"c", "o", "v", "e", "r", "a", "g", "e", ".", "p", "y">> @@
    "custom" :> <<"c", "u", "s", "t", "o", "m">> @@
    "demo" :> <<"d", "e", "m", "o">> @@
    "django" :> <<"d", "j", "a", "n", "g", "o">> @@
    "gitlab.example/x" :> <<"g", "i", "t", "l", "a", "b", ".", "e", "x", "a", "m", "p", "l", "e", "/", "x">> @@
    "img" :> <<"i", "m", "g">> @@
    "kept" :> <<"k", "e", "p", "t">> @@
    "my-" :> <<"m", "y", "-">> @@
    "my-typescript-nodejs-project" :> <<"m", "y", "-", "t", "y", "p", "e", "s", "c", "r", "i", "p", "t", "-", "n", "o", "d", "e", "j", "s", "-", "p", "r", "o", "j", "e", "c", "t">> @@
    "n" :> <<"n">> @@
    "node:20-alpine" :> <<"n", "o", "d", "e", ":", "2", "0", "-", "a", "l", "p", "i", "n", "e">> @@
    "npm install  # or: yarn install" :> <<"n", "p", "m", " ", "i", "n", "s", "t", "a", "l", "l", " ", " ", "#", " ", "o", "r", ":", " ", "y", "a", "r", "n", " ", "i", "n", "s", "t", "a", "l", "l">> @@
    "npm start  # or: yarn start" :> <<"n", "p", "m", " ", "s", "t", "a", "r", "t", " ", " ", "#", " ", "o", "r", ":", " ", "y", "a", "r", "n", " ", "s", "t", "a", "r", "t">> @@
    "npm test  # or: yarn test" :> <<"n", "p", "m", " ", "t", "e", "s", "t", " ", " ", "#", " ", "o", "r", ":", " ", "y", "a", "r", "n", " ", "t", "e", "s", "t">> @@
    "npm/yarn" :> <<"n", "p", "m", "/", "y", "a", "r", "n">> @@
    "pip" :> <<"p", "i", "p">> @@
    "poetry install" :> <<"p", "o", "e", "t", "r", "y", " ", "i", "n", "s", "t", "a", "l", "l">> @@
    "poetry run behave && poetry run pytest" :> <<"p", "o", "e", "t", "r", "y", " ", "r", "u", "n", " ", "b", "e", "h", "a", "v", "e", " ", "&", "&", " ", "p", "o", "e", "t", "r", "y", " ", "r", "u", "n", " ", "p", "y", "t", "e", "s", "t">> @@
    "poetry run pytest --cov=src" :> <<"p", "o", "e", "t", "r", "y", " ", "r", "u", "n", " ", "p", "y", "t", "e", "s", "t", " ", "-", "-", "c", "o", "v", "=", "s", "r", "c">> @@
    "poetry run python src/main.py" :> <<"p", "o", "e", "t", "r", "y", " ", "r", "u", "n", " ", "p", "y", "t", "h", "o", "n", " ", "s", "r", "c", "/", "m", "a", "i", "n", ".", "p", "y">> @@
    "poetry run uvicorn src.main:app --reload" :> <<"p", "o", "e", "t", "r", "y", " ", "r", "u", "n", " ", "u", "v", "i", "c", "o", "r", "n", " ", "s", "r", "c", ".", "m", "a", "i", "n", ":", "a", "p", "p", " ", "-", "-", "r", "e", "l", "o", "a", "d">> @@
    "pytest" :> <<"p", "y", "t", "e", "s", "t">> @@
    "pytest-cov" :> <<"p", "y", "t", "e", "s", "t", "-", "c", "o", "v">> @@
    "python" :> <<"p", "y", "t", "h", "o", "n">> @@
    "python-behave" :> <<"p", "y", "t", "h", "o", "n", "-", "b", "e", "h", "a", "v", "e">> @@
    "python-fastapi" :> <<"p", "y", "t", "h", "o", "n", "-", "f", "a", "s", "t", "a", "p", "i">> @@
    "python:3.11-slim" :> <<"p", "y", "t", "h", "o", "n", ":", "3", ".", "1", "1", "-", "s", "l", "i", "m">> @@
    "src/\n<U+2514><U+2500><U+2500> main.*        # Entry point\n\ntests/\n<U+2514><U+2500><U+2500> test_*.*      # Tests" :> <<"s", "r", "c", "/", "\n", "<U+2514>", "<U+2500>", "<U+2500>", " ", "m", "a", "i", "n", ".", "*", " ", " ", " ", " ", " ", " ", " ", " ", "#", " ", "E", "n", "t", "r", "y", " ", "p", "o", "i", "n", "t", "\n", "\n", "t", "e", "s", "t", "s", "/", "\n", "<U+2514>", "<U+2500>", "<U+2500>", " ", "t", "e", "s", "t", "_", "*", ".", "*", " ", " ", " ", " ", " ", " ", "#", " ", "T", "e", "s", "t", "s">> @@
    "src/\n<U+251C><U+2500><U+2500> services/     # Business logic\n<U+251C><U+2500><U+2500> config/       # Configuration\n<U+251C><U+2500><U+2500> operations/   # Complex operations\n<U+251C><U+2500><U+2500> utilities/    # Helper functions\n<U+2514><U+2500><U+2500> main.py       # Entry point\n\ntests/\n<U+251C><U+2500><U+2500> services/     # Service tests\n<U+2514><U+2500><U+2500> test_*.py     # Other tests" :> <<"s", "r", "c", "/", "\n", "<U+251C>", "<U+2500>", "<U+2500>", " ", "s", "e", "r", "v", "i", "c", "e", "s", "/", " ", " ", " ", " ", " ", "#", " ", "B", "u", "s", "i", "n", "e", "s", "s", " ", "l", "o", "g", "i", "c", "\n", "<U+251C>", "<U+2500>", "<U+2500>", " ", "c", "o", "n", "f", "i", "g", "/", " ", " ", " ", " ", " ", " ", " ", "#", " ", "C", "o", "n", "f", "i", "g", "u", "r", "a", "t", "i", "o", "n", "\n", "<U+251C>", "<U+2500>", "<U+2500>", " ", "o", "p", "e", "r", "a", "t", "i", "o", "n", "s", "/", " ", " ", " ", "#", " ", "C", "o", "m", "p", "l", "e", "x", " ", "o", "p", "e", "r", "a", "t", "i", "o", "n", "s", "\n", "<U+251C>", "<U+2500>", "<U+2500>", " ", "u", "t", "i", "l", "i", "t", "i", "e", "s", "/", " ", " ", " ", " ", "#", " ", "H", "e", "l", "p", "e", "r", " ", "f", "u", "n", "c", "t", "i", "o", "n", "s", "\n", "<U+2514>", "<U+2500>", "<U+2500>", " ", "m", "a", "i", "n", ".", "p", "y", " ", " ", " ", " ", " ", " ", " ", "#", " ", "E", "n", "t", "r", "y", " ", "p", "o", "i", "n", "t", "\n", "\n", "t", "e", "s", "t", "s", "/", "\n", "<U+251C>", "<U+2500>", "<U+2500>", " ", "s", "e", "r", "v", "i", "c", "e", "s", "/", " ", " ", " ", " ", " ", "#", " ", "S", "e", "r", "v", "i", "c", "e", " ", "t", "e", "s", "t", "s", "\n", "<U+2514>", "<U+2500>", "<U+2500>", " ", "t", "e", "s", "t", "_", "*", ".", "p", "y", " ", " ", " ", " ", " ", "#", " ", "O", "t", "h", "e", "r", " ", "t", "e", "s", "t", "s">> @@
    "src/\n<U+251C><U+2500><U+2500> services/     # Business logic\n<U+251C><U+2500><U+2500> config/       # Configuration\n<U+251C><U+2500><U+2500> utils/        # Utilities\n<U+251C><U+2500><U+2500> types/        # Type definitions\n<U+2514><U+2500><U+2500> index.ts      # Entry point\n\ntests/\n<U+251C><U+2500><U+2500> services/     # Service tests\n<U+2514><U+2500><U+2500> *.test.ts     # Test files" :> <<"s", "r", "c", "/", "\n", "<U+251C>", "<U+2500>", "<U+2500>", " ", "s", "e", "r", "v", "i", "c", "e", "s", "/", " ", " ", " ", " ", " ", "#", " ", "B", "u", "s", "i", "n", "e", "s", "s", " ", "l", "o", "g", "i", "c", "\n", "<U+251C>", "<U+2500>", "<U+2500>", " ", "c", "o", "n", "f", "i", "g", "/", " ", " ", " ", " ", " ", " ", " ", "#", " ", "C", "o", "n", "f", "i", "g", "u", "r", "a", "t", "i", "o", "n", "\n", "<U+251C>", "<U+2500>", "<U+2500>", " ", "u", "t", "i", "l", "s", "/", " ", " ", " ", " ", " ", " ", " ", " ", "#", " ", "U", "t", "i", "l", "i", "t", "i", "e", "s", "\n", "<U+251C>", "<U+2500>", "<U+2500>", " ", "t", "y", "p", "e", "s", "/", " ", " ", " ", " ", " ", " ", " ", " ", "#", " ", "T", "y", "p", "e", " ", "d", "e", "f", "i", "n", "i", "t", "i", "o", "n", "s", "\n", "<U+2514>", "<U+2500>", "<U+2500>", " ", "i", "n", "d", "e", "x", ".", "t", "s", " ", " ", " ", " ", " ", " ", "#", " ", "E", "n", "t", "r", "y", " ", "p", "o", "i", "n", "t", "\n", "\n", "t", "e", "s", "t", "s", "/", "\n", "<U+251C>", "<U+2500>", "<U+2500>", " ", "s", "e", "r", "v", "i", "c", "e", "s", "/", " ", " ", " ", " ", " ", "#", " ", "S", "e", "r", "v", "i", "c", "e", " ", "t", "e", "s", "t", "s", "\n", "<U+2514>", "<U+2500>", "<U+2500>", " ", "*", ".", "t", "e", "s", "t", ".", "t", "s", " ", " ", " ", " ", " ", "#", " ", "T", "e", "s", "t", " ", "f", "i", "l", "e", "s">> @@
    "typescript-nodejs" :> <<"t", "y", "p", "e", "s", "c", "r", "i", "p", "t", "-", "n", "o", "d", "e", "j", "s">> @@
    "unittest" :> <<"u", "n", "i", "t", "t", "e", "s", "t">> @@
    "x = 1" :> <<"x", " ", "=", " ", "1">> @@
    "y" :> <<"y">> @@
    "yes" :> <<"y", "e", "s">> @@
    "{" :> <<"{">> @@
    "{{AUTHOR}}" :> <<"{", "{", "A", "U", "T", "H", "O", "R", "}", "}">> @@
    "{{AUT{{PROJECT_NAME}}R}}" :> <<"{", "{", "A", "U", "T", "{", "{", "P", "R", "O", "J", "E", "C", "T", "_", "N", "A", "M", "E", "}", "}", "R", "}", "}">> @@
    "{{COVERAGE_THRESHOLD}}" :> <<"{", "{", "C", "O", "V", "E", "R", "A", "G", "E", "_", "T", "H", "R", "E", "S", "H", "O", "L", "D", "}", "}">> @@
    "{{COVERAGE_TOOL}}" :> <<"{", "{", "C", "O", "V", "E", "R", "A", "G", "E", "_", "T", "O", "O", "L", "}", "}">> @@
    "{{DOCKER_IMAGE}}" :> <<"{", "{", "D", "O", "C", "K", "E", "R", "_", "I", "M", "A", "G", "E", "}", "}">> @@
    "{{FRAMEWORK}}" :> <<"{", "{", "F", "R", "A", "M", "E", "W", "O", "R", "K", "}", "}">> @@
    "{{GENERATION_DATE}}" :> <<"{", "{", "G", "E", "N", "E", "R", "A", "T", "I", "O", "N", "_", "D", "A", "T", "E", "}", "}">> @@
    "{{GITLAB_URL}}" :> <<"{", "{", "G", "I", "T", "L", "A", "B", "_", "U", "R", "L", "}", "}">> @@
    "{{LANGUAGE_VERSION}}" :> <<"{", "{", "L", "A", "N", "G", "U", "A", "G", "E", "_", "V", "E", "R", "S", "I", "O", "N", "}", "}">> @@
    "{{LANGUAGE}}" :> <<"{", "{", "L", "A", "N", "G", "U", "A", "G", "E", "}", "}">> @@
    "{{PACKAGE_MANAGER}}" :> <<"{", "{", "P", "A", "C", "K", "A", "G", "E", "_", "M", "A", "N", "A", "G", "E", "R", "}", "}">> @@
    "{{PROJECT_DESCRIPTION}}" :> <<"{", "{", "P", "R", "O", "J", "E", "C", "T", "_", "D", "E", "S", "C", "R", "I", "P", "T", "I", "O", "N", "}", "}">> @@
    "{{PROJECT_NAME}}" :> <<"{", "{", "P", "R", "O", "J", "E", "C", "T", "_", "N", "A", "M", "E", "}", "}">> @@
    "{{TEST_FRAMEWORK}}" :> <<"{", "{", "T", "E", "S", "T", "_", "F", "R", "A", "M", "E", "W", "O", "R", "K", "}", "}">> @@
    "{{UNKNOWN}}" :> <<"{", "{", "U", "N", "K", "N", "O", "W", "N", "}", "}">> @@
    "{{YEAR}}" :> <<"{", "{", "Y", "E", "A", "R", "}", "}">> @@
    "{{{GITLAB_URL}}{YEAR}}" :> <<"{", "{", "{", "G", "I", "T", "L", "A", "B", "_", "U", "R", "L", "}", "}", "{", "Y", "E", "A", "R", "}", "}">>
\* ---- CharTable: end

\* the characters of a string literal of the source
Chars(s) == CharTable[s]

None == <<>>
Some(x) == <<x>>

RECURSIVE Concat(_)
Concat(ss) == IF ss = <<>> THEN <<>> ELSE Head(ss) \o Concat(Tail(ss))

IsSpace(c) == c \in {" ", "\t", "\n"}

RECURSIVE LStrip(_)
LStrip(s) == IF s # <<>> /\ IsSpace(Head(s)) THEN LStrip(Tail(s)) ELSE s

RECURSIVE RStrip(_)
RStrip(s) ==
    IF s # <<>> /\ IsSpace(s[Len(s)]) THEN RStrip(SubSeq(s, 1, Len(s) - 1)) ELSE s

\* str.strip()
Strip(s) == RStrip(LStrip(s))

UpperCase == Chars("ABCDEFGHIJKLMNOPQRSTUVWXYZ")
LowerCase == Chars("abcdefghijklmnopqrstuvwxyz")

LowerChar(c) ==
    IF \E i \in 1..Len(UpperCase) : UpperCase[i] = c
    THEN LowerCase[CHOOSE i \in 1..Len(UpperCase) : UpperCase[i] = c]
    ELSE c

\* str.lower()
Lower(s) == [i \in 1..Len(s) |-> LowerChar(s[i])]

\* s[i:].startswith(old)
StartsWithAt(s, i, old) ==
    /\ i + Len(old) - 1 <= Len(s)
    /\ SubSeq(s, i, i + Len(old) - 1) = old

\* s.find(old, i - 1) + 1: the first occurrence of old at or after position i, or 0
FindFrom(s, i, old) ==
    LET hits == {j \in i..(Len(s) - Len(old) + 1) : StartsWithAt(s, j, old)}
    IN  IF hits = {} THEN 0 ELSE CHOOSE j \in hits : \A k \in hits : j <= k

RECURSIVE ReplaceFrom(_, _, _, _)
ReplaceFrom(s, i, old, new) ==
    LET j == FindFrom(s, i, old)
    IN  IF j = 0 THEN SubSeq(s, i, Len(s))
        ELSE SubSeq(s, i, j - 1) \o new \o ReplaceFrom(s, j + Len(old), old, new)

\* str.replace(old, new) for a non-empty old: the non-overlapping occurrences,
\* found from the left
str_replace(s, old, new) == ReplaceFrom(s, 1, old, new)

\* str.count(old): the number of non-overlapping occurrences of old in s
RECURSIVE CountFrom(_, _, _)
CountFrom(s, i, old) ==
    LET j == FindFrom(s, i, old)
    IN  IF j = 0 THEN 0 ELSE 1 + CountFrom(s, j + Len(old), old)

Contains(s, old) == \E i \in 1..Len(s) : StartsWithAt(s, i, old)

Digits == Chars("0123456789")

IsDigit(c) == \E i \in 1..10 : Digits[i] = c

DigitValue(c) == (CHOOSE i \in 1..10 : Digits[i] = c) - 1

RECURSIVE DigitsValue(_)
DigitsValue(s) ==
    IF s = <<>> THEN 0
    ELSE DigitsValue(SubSeq(s, 1, Len(s) - 1)) * 10 + DigitValue(s[Len(s)])

\* the digit strings int() accepts: digits, with single underscores between them
IsNumeral(s) ==
    /\ s # <<>>
    /\ IsDigit(s[1]) /\ IsDigit(s[Len(s)])
    /\ \A i \in 1..Len(s) : IsDigit(s[i]) \/ s[i] = "_"
    /\ \A i \in 1..(Len(s) - 1) : ~(s[i] = "_" /\ s[i + 1] = "_")

Unsigned(s) == IF s # <<>> /\ s[1] \in {"+", "-"} THEN Tail(s) ELSE s

\* int(s) raises ValueError unless this holds
IntParses(s) == IsNumeral(Unsigned(Strip(s)))

\* int(s)
IntValue(s) ==
    LET t == Strip(s)
        n == DigitsValue(SelectSeq(Unsigned(t), IsDigit))
    IN  IF t[1] = "-" THEN 0 - n ELSE n

\* str(n) for n >= 0
RECURSIVE IntToStr(_)
IntToStr(n) ==
    IF n < 10 THEN <<Digits[n + 1]>>
    ELSE IntToStr(n \div 10) \o <<Digits[(n % 10) + 1]>>

\* "%02d"
Pad2(n) == IF n < 10 THEN <<"0">> \o IntToStr(n) ELSE IntToStr(n)

\* datetime.strftime("%Y-%m-%d"), for a year of four digits
FormatDate(d) == IntToStr(d.year) \o <<"-">> \o Pad2(d.month) \o <<"-">> \o Pad2(d.day)

(***************************************************************************)
(* The framework registry.                                                 *)
(***************************************************************************)
FrameworkConfig(name, display_name, language, framework, package_manager, test_framework, coverage_tool, docker_image, language_version, description) ==
    [name |-> name, display_name |-> display_name, language |-> language,
     framework |-> framework, package_manager |-> package_manager,
     test_framework |-> test_framework, coverage_tool |-> coverage_tool,
     docker_image |-> docker_image, language_version |-> language_version,
     description |-> description]

\* the values of the FRAMEWORKS dict, in insertion order
FRAMEWORKS ==
    << FrameworkConfig(Chars("python-fastapi"), Chars("Python + FastAPI"),
           Chars("Python"), Chars("FastAPI"), Chars("Poetry"), Chars("pytest"),
           Chars("pytest-cov"), Chars("python:3.11-slim"), Chars("3.11.x"),
           Chars("Modern Python web API with FastAPI, Poetry, and pytest")),
       FrameworkConfig(Chars("typescript-nodejs"),
           Chars("TypeScript + Node.js + Express"), Chars("TypeScript"),
           Chars("Express"), Chars("npm/yarn"), Chars("Jest"), Chars("Istanbul"),
           Chars("node:20-alpine"), Chars("5.3+"),
           Chars("TypeScript backend with Express, Jest, and ESLint")),
       FrameworkConfig(Chars("python-behave"), Chars("Python + Behave (BDD)"),
           Chars("Python"), Chars("Behave"), Chars("Poetry"),
           Chars("Behave + pytest"), Chars("coverage.py"),
           Chars("python:3.11-slim"), Chars("3.11.x"),
           Chars("Behavior-driven development with Behave and Python")) >>

\* FRAMEWORKS.keys()
FrameworkKeys == {FRAMEWORKS[i].name : i \in 1..Len(FRAMEWORKS)}

\* FRAMEWORKS[key]
Lookup(key) == FRAMEWORKS[CHOOSE i \in 1..Len(FRAMEWORKS) : FRAMEWORKS[i].name = key]

\* the value of config["framework_config"] before get_project_config has set it
NoFramework ==
    FrameworkConfig(<<>>, <<>>, <<>>, <<>>, <<>>, <<>>, <<>>, <<>>, <<>>, <<>>)

NoConfig ==
    [framework_config |-> NoFramework, project_name |-> <<>>, author |-> <<>>,
     description |-> <<>>, gitlab_url |-> <<>>, coverage_threshold |-> <<>>]

(***************************************************************************)
(* replace_variables.                                                      *)
(***************************************************************************)
\* replacements.items(): the placeholders and their values, in insertion order
Replacements(cfg, now) ==
    LET fc == cfg.framework_config
    IN  << <<Chars("{{LANGUAGE}}"), fc.language>>,
           <<Chars("{{LANGUAGE_VERSION}}"), fc.language_version>>,
           <<Chars("{{FRAMEWORK}}"), fc.framework>>,
           <<Chars("{{PACKAGE_MANAGER}}"), fc.package_manager>>,
           <<Chars("{{TEST_FRAMEWORK}}"), fc.test_framework>>,
           <<Chars("{{COVERAGE_TOOL}}"), fc.coverage_tool>>,
           <<Chars("{{DOCKER_IMAGE}}"), fc.docker_image>>,
           <<Chars("{{PROJECT_NAME}}"), cfg.project_name>>,
           <<Chars("{{PROJECT_DESCRIPTION}}"), cfg.description>>,
           <<Chars("{{AUTHOR}}"), cfg.author>>,
           <<Chars("{{GITLAB_URL}}"), cfg.gitlab_url>>,
           <<Chars("{{COVERAGE_THRESHOLD}}"), cfg.coverage_threshold>>,
           <<Chars("{{GENERATION_DATE}}"), FormatDate(now)>>,
           <<Chars("{{YEAR}}"), IntToStr(now.year)>> >>

NumTokens == Len(Replacements(NoConfig, [year |-> 2000, month |-> 1, day |-> 1]))

\* a variant that calls replace and drops the string it returns
ReplaceOneDiscarded(res, pair) == res

\* one iteration of the loop: result = result.replace(placeholder, value)
ReplaceOne(res, pair) == str_replace(res, pair[1], pair[2])

RECURSIVE ReplaceLoop(_, _, _)
ReplaceLoop(res, reps, i) ==
    IF i > Len(reps) THEN res ELSE ReplaceLoop(ReplaceOne(res, reps[i]), reps, i + 1)

replace_variables(text, cfg, now) == ReplaceLoop(text, Replacements(cfg, now), 1)

(***************************************************************************)
(* generate_readme.                                                        *)
(***************************************************************************)
_get_install_command(fc) ==
    IF fc.package_manager = Chars("Poetry") THEN Chars("poetry install")
    ELSE IF fc.package_manager = Chars("npm/yarn")
         THEN Chars("npm install  # or: yarn install")
         ELSE Chars("# Install dependencies")

\* a variant whose third row tests for Behave instead of Behave + pytest
_get_test_command_behave(fc) ==
    IF fc.test_framework = Chars("pytest") THEN Chars("poetry run pytest --cov=src")
    ELSE IF fc.test_framework = Chars("Jest") THEN Chars("npm test  # or: yarn test")
    ELSE IF fc.test_framework = Chars("Behave")
    THEN Chars("poetry run behave && poetry run pytest")
    ELSE Chars("# Run tests")

_get_test_command(fc) ==
    IF fc.test_framework = Chars("pytest") THEN Chars("poetry run pytest --cov=src")
    ELSE IF fc.test_framework = Chars("Jest") THEN Chars("npm test  # or: yarn test")
    ELSE IF fc.test_framework = Chars("Behave + pytest")
         THEN Chars("poetry run behave && poetry run pytest")
         ELSE Chars("# Run tests")

_get_run_command(fc) ==
    IF fc.framework = Chars("FastAPI")
    THEN Chars("poetry run uvicorn src.main:app --reload")
    ELSE IF fc.framework = Chars("Express") THEN Chars("npm start  # or: yarn start")
    ELSE IF fc.framework = Chars("Behave") THEN Chars("poetry run python src/main.py")
         ELSE Chars("# Run application")

_get_structure_example(fc) ==
    IF fc.language = Chars("Python")
    THEN Chars("src/\n<U+251C><U+2500><U+2500> services/     # Business logic\n<U+251C><U+2500><U+2500> config/       # Configuration\n<U+251C><U+2500><U+2500> operations/   # Complex operations\n<U+251C><U+2500><U+2500> utilities/    # Helper functions\n<U+2514><U+2500><U+2500> main.py       # Entry point\n\ntests/\n<U+251C><U+2500><U+2500> services/     # Service tests\n<U+2514><U+2500><U+2500> test_*.py     # Other tests")
    ELSE IF fc.language = Chars("TypeScript")
    THEN Chars("src/\n<U+251C><U+2500><U+2500> services/     # Business logic\n<U+251C><U+2500><U+2500> config/       # Configuration\n<U+251C><U+2500><U+2500> utils/        # Utilities\n<U+251C><U+2500><U+2500> types/        # Type definitions\n<U+2514><U+2500><U+2500> index.ts      # Entry point\n\ntests/\n<U+251C><U+2500><U+2500> services/     # Service tests\n<U+2514><U+2500><U+2500> *.test.ts     # Test files")
    ELSE Chars("src/\n<U+2514><U+2500><U+2500> main.*        # Entry point\n\ntests/\n<U+2514><U+2500><U+2500> test_*.*      # Tests")

\* the f-string readme_content
ReadmeContent(cfg, now) ==
    LET fc == cfg.framework_config
    IN  Concat(<<
        Chars("# "),
        cfg.project_name,
        Chars("\n\n"),
        cfg.description,
        Chars("\n\n## Stack\n\n- **Language**: "),
        fc.language,
        Chars(" "),
        fc.language_version,
        Chars("\n- **Framework**: "),
        fc.framework,
        Chars("\n- **Package Manager**: "),
        fc.package_manager,
        Chars("\n- **Testing**: "),
        fc.test_framework,
        Chars(" + "),
        fc.coverage_tool,
        Chars("\n- **CI/CD**: GitLab CI/CD\n\n## Getting Started\n\n### Prerequisites\n\n- "),
        fc.language,
        Chars(" "),
        fc.language_version,
        Chars("\n- "),
        fc.package_manager,
        Chars("\n- Docker\n\n### Installation\n\n<U+0060><U+0060><U+0060>bash\n# Install dependencies\n"),
        _get_install_command(fc),
        Chars("\n\n# Run tests\n"),
        _get_test_command(fc),
        Chars("\n\n# Run application\n"),
        _get_run_command(fc),
        Chars("\n<U+0060><U+0060><U+0060>\n\n## Project Structure\n\n<U+0060><U+0060><U+0060>\n"),
        _get_structure_example(fc),
        Chars("\n<U+0060><U+0060><U+0060>\n\n## Development\n\nSee <U+0060>COPILOT_INSTRUCTIONS.md<U+0060> for detailed coding standards and guidelines.\n\n## Testing\n\n- Minimum coverage: "),
        cfg.coverage_threshold,
        Chars("%\n- All code must have corresponding tests\n\n## CI/CD\n\nPipeline stages: <U+0060>lint<U+0060> <U+2192> <U+0060>test<U+0060> <U+2192> <U+0060>build<U+0060> <U+2192> <U+0060>deploy<U+0060>\n\nSee <U+0060>.gitlab-ci.yml<U+0060> for details.\n\n## Author\n\n"),
        cfg.author,
        Chars("\n\n## Generated\n\nThis project was generated on "),
        FormatDate(now),
        Chars(" using the project template system.\n") >>)

(***************************************************************************)
(* The file system.                                                        *)
(***************************************************************************)
Dir == [kind |-> "dir", content |-> <<>>]
File(text) == [kind |-> "file", content |-> text]

\* Path.exists(), Path.is_file()
Exists(f, p) == p \in DOMAIN f
IsFile(f, p) == p \in DOMAIN f /\ f[p].kind = "file"

IsPrefix(p, q) == Len(p) <= Len(q) /\ SubSeq(q, 1, Len(p)) = p

\* Path.parent
Parent(p) == SubSeq(p, 1, Len(p) - 1)

\* Path.iterdir()
Children(f, p) == {q \in DOMAIN f : Len(q) = Len(p) + 1 /\ IsPrefix(p, q)}

\* the regular files Path.rglob("*") yields
FilesUnder(f, p) == {q \in DOMAIN f : Len(q) > Len(p) /\ IsPrefix(p, q) /\ f[q].kind = "file"}

\* Path.mkdir(parents=True, exist_ok=True)
Mkdir(f, p) ==
    LET new == {SubSeq(p, 1, n) : n \in 1..Len(p)}
    IN  [q \in DOMAIN f \cup new |-> IF q \in DOMAIN f THEN f[q] ELSE Dir]

\* open(p, "w").write(text)
WriteFile(f, p, text) ==
    [q \in DOMAIN f \cup {p} |-> IF q = p THEN File(text) ELSE f[q]]

\* a variant that opens the file for writing, which empties an existing file
TouchTruncates(f, p) == WriteFile(f, p, <<>>)

\* Path.touch()
Touch(f, p) == IF p \in DOMAIN f THEN f ELSE WriteFile(f, p, <<>>)

\* the path component a str names
RECURSIVE Join(_)
Join(text) == IF text = <<>> THEN "" ELSE Head(text) \o Join(Tail(text))

\* Path(__file__).parent, and the paths ProjectGenerator.__init__ derives from it
script_dir == <<"templates">>
frameworks_dir == script_dir \o <<"frameworks">>
base_template == script_dir \o <<"COPILOT_INSTRUCTIONS.template.md">>

\* the default of --output
output_dir == <<"..", "generated-project">>

(***************************************************************************)
(* The file systems a run may start from.                                  *)
(***************************************************************************)
\* the files a framework template tree may hold, with their text
TemplateFiles ==
    (<<"README.md">> :> Chars("# {{PROJECT_NAME}}\n")) @@
    (<<"foo", "bar.txt">> :> Chars("Hello {{PROJECT_NAME}}")) @@
    (<<"src", "services", "__init__.py">> :> Chars("# {{AUTHOR}}"))

BaseTemplateText == Chars("# {{PROJECT_NAME}} ({{FRAMEWORK}}): at least {{COVERAGE_THRESHOLD}}%\n")

\* a template tree: absent, or a directory holding some of TemplateFiles
TemplateTrees ==
    {[present |-> FALSE, files |-> {}]} \cup
    {[present |-> TRUE, files |-> s] :
        s \in {s \in SUBSET DOMAIN TemplateFiles : Cardinality(s) <= MaxTemplateFiles}}

\* the output directory: absent, empty, or holding a file of an earlier run
OutputStates == {"absent", "empty", "non-empty"}

RECURSIVE WriteAll(_, _, _)
WriteAll(f, root, files) ==
    IF files = {} THEN f
    ELSE LET p == CHOOSE p \in files : TRUE
         IN  WriteAll(WriteFile(Mkdir(f, Parent(root \o p)), root \o p, TemplateFiles[p]),
                      root, files \ {p})

RECURSIVE InstallTrees(_, _, _)
InstallTrees(f, keys, tree) ==
    IF keys = {} THEN f
    ELSE LET k == CHOOSE k \in keys : TRUE
         IN  InstallTrees(WriteAll(Mkdir(f, frameworks_dir \o <<Join(k)>>),
                                   frameworks_dir \o <<Join(k)>>, tree.files),
                          keys \ {k}, tree)

InitialFs(tree, base, out) ==
    LET f0 == Mkdir(Mkdir(<<>>, script_dir), Parent(output_dir))
        f1 == IF tree.present THEN InstallTrees(f0, FrameworkKeys, tree) ELSE f0
        f2 == IF base THEN WriteFile(f1, base_template, BaseTemplateText) ELSE f1
        f3 == IF out = "absent" THEN f2 ELSE Mkdir(f2, output_dir)
    IN  IF out = "non-empty"
        THEN WriteFile(f3, output_dir \o <<"old.txt">>, Chars("kept"))
        ELSE f3

(***************************************************************************)
(* What the user may pass and type.                                        *)
(***************************************************************************)
\* --framework: absent, a registered key, or a key that is not registered
CliFrameworks == {None} \cup {Some(k) : k \in FrameworkKeys} \cup {Some(Chars("django"))}

\* --name: absent, a name, or the empty string
CliNames == {None, Some(Chars("demo")), Some(Chars(""))}

SelectInputs ==
    {Chars(""), Chars(" "), Chars("1"), Chars("2"), Chars(" 3 "), Chars("+3"), Chars("0"),
     Chars("4"), Chars("-1"), Chars("abc"), Chars("1.5")}

NameInputs == {Chars(""), Chars("  "), Chars(" my-api ")}
AuthorInputs == {Chars(""), Chars("  "), Chars("Ada")}
DescriptionInputs == {Chars(""), Chars("  "), Chars("A demo")}
GitlabUrlInputs == {Chars(""), Chars("  "), Chars("gitlab.example/x")}
CoverageThresholdInputs == {Chars(""), Chars("  "), Chars("90")}

ConfirmInputs ==
    {Chars(""), Chars("y"), Chars(" Y "), Chars("n"), Chars("yes")}

Today == [year |-> 2026, month |-> 11, day |-> 1]

\* no call of generate_from_base_template has returned yet: a value of the
\* shape of a returned path that no call returns
NoReturn == << <<>> >>

NoArgs == [framework |-> None, name |-> None, base_only |-> FALSE, list |-> FALSE]
NoExit == -1

\* truth value of an Optional[str]
Truthy(opt) == opt # None /\ opt[1] # <<>>

Event(op, path) == [op |-> op, path |-> path]

(***************************************************************************)
(* main() up to the call of generate_project.                              *)
(***************************************************************************)
Init ==
    /\ pc = "parse_args"
    /\ argv \in [framework : CliFrameworks, name : CliNames, base_only : BOOLEAN,
                 list : BOOLEAN]
    /\ args = NoArgs
    /\ returned = NoReturn
    /\ \E tree \in TemplateTrees, base \in BOOLEAN, out \in OutputStates :
           fs = InitialFs(tree, base, out)
    /\ fs0 = fs
    /\ config = NoConfig
    /\ today = Today
    /\ asked = {}
    /\ attempts = 0
    /\ custom = 0
    /\ lastRaw = <<>>
    /\ exitCode = NoExit
    /\ log = <<>>
    /\ todo = {}
    /\ copied = <<>>
    /\ content = <<>>
    /\ result = <<>>
    /\ idx = 0

\* the variables of a stepwise replace_variables call, idle in a run of main()
substVars == <<content, result, idx>>

\* the record of the prompts, left alone by a step that reads no input
promptVars == <<asked, attempts, custom>>

Exit(code) == pc' = "exited" /\ exitCode' = code

\* a variant of the parser without choices for --framework
ChoicesAny(fw) == TRUE

\* argparse accepts --framework only when absent or one of choices
ChoicesOk(fw) == fw = None \/ fw[1] \in FrameworkKeys

\* parser.parse_args(): a value outside choices is a usage error, status 2
ParseArgs ==
    /\ pc = "parse_args"
    /\ IF ChoicesOk(argv.framework)
       THEN /\ args' = argv
            /\ pc' = "main"
            /\ UNCHANGED exitCode
       ELSE /\ Exit(2)
            /\ UNCHANGED args
    /\ UNCHANGED <<argv, returned, fs, fs0, config, today, promptVars, lastRaw, log, todo, copied,
                   substVars>>

\* --list prints the frameworks and returns; otherwise generate_project is called
Main ==
    /\ pc = "main"
    /\ IF args.list THEN Exit(0) ELSE pc' = "get_project_config" /\ UNCHANGED exitCode
    /\ UNCHANGED <<argv, args, returned, fs, fs0, config, today, promptVars, lastRaw, log, todo, copied,
                   substVars>>

(***************************************************************************)
(* get_project_config and the prompts.                                     *)
(***************************************************************************)
\* a variant that returns the stripped value without falling back to the default
get_user_input_no_default(raw, default) == Strip(raw)

get_user_input(raw, default) ==
    LET value == Strip(raw) IN IF value # <<>> THEN value ELSE default

Answered(prompt, raw) == asked' = asked \cup {prompt} /\ lastRaw' = raw

\* a metadata prompt answered with raw, within the bound on answers of the user's own
MetadataAnswered(prompt, raw) ==
    /\ Strip(raw) # <<>> => custom < MaxCustomAnswers
    /\ custom' = IF Strip(raw) # <<>> THEN custom + 1 ELSE custom
    /\ Answered(prompt, raw)
    /\ UNCHANGED attempts

GetFramework ==
    /\ pc = "get_project_config"
    /\ IF Truthy(args.framework)
       THEN IF args.framework[1] \notin FrameworkKeys
            THEN Exit(1) /\ UNCHANGED config
            ELSE /\ config' = [config EXCEPT !.framework_config = Lookup(args.framework[1])]
                 /\ pc' = "project_name"
                 /\ UNCHANGED exitCode
       ELSE pc' = "select_framework" /\ UNCHANGED <<config, exitCode>>
    /\ UNCHANGED <<argv, args, returned, fs, fs0, today, promptVars, lastRaw, log, todo, copied, substVars>>

\* 0 <= int(choice) - 1 < len(FRAMEWORKS), when int(choice) does not raise
ValidChoice(choice) ==
    /\ IntParses(choice)
    /\ 0 <= IntValue(choice) - 1
    /\ IntValue(choice) - 1 < Len(FRAMEWORKS)

\* a variant that indexes the sorted keys instead of the registration order
SelectedSorted(choice) ==
    LET sorted == << FRAMEWORKS[3], FRAMEWORKS[1], FRAMEWORKS[2] >>
    IN  sorted[(IntValue(choice) - 1) + 1]

\* list(FRAMEWORKS.values())[int(choice) - 1]
Selected(choice) == FRAMEWORKS[(IntValue(choice) - 1) + 1]

\* one iteration of the loop of select_framework
SelectFramework ==
    /\ pc = "select_framework"
    /\ attempts < MaxSelectAttempts
    /\ \E raw \in SelectInputs :
           LET choice == get_user_input(raw, Chars("1"))
           IN  /\ Answered("framework", raw)
               /\ IF ValidChoice(choice)
                  THEN /\ config' = [config EXCEPT !.framework_config = Selected(choice)]
                       /\ pc' = "project_name"
                       /\ attempts' = 0
                  ELSE /\ attempts' = attempts + 1
                       /\ UNCHANGED <<config, pc>>
    /\ UNCHANGED <<argv, args, returned, fs, fs0, today, custom, exitCode, log, todo, copied, substVars>>

UseProjectName ==
    /\ pc = "project_name"
    /\ Truthy(args.name)
    /\ config' = [config EXCEPT !.project_name = args.name[1]]
    /\ pc' = "author"
    /\ lastRaw' = <<>>
    /\ UNCHANGED <<argv, args, returned, fs, fs0, today, promptVars, exitCode, log, todo, copied, substVars>>

DefaultProjectName(fc) == Chars("my-") \o fc.name \o Chars("-project")
DefaultAuthor == Chars("Your Team")
DefaultDescription(fc) == Chars("A ") \o fc.display_name \o Chars(" project")
DefaultGitlabUrl == Chars("")
DefaultCoverageThreshold == Chars("80")

InputProjectName ==
    /\ pc = "project_name"
    /\ ~Truthy(args.name)
    /\ \E raw \in NameInputs :
           /\ MetadataAnswered("project_name", raw)
           /\ config' = [config EXCEPT !.project_name =
                             get_user_input(raw, DefaultProjectName(config.framework_config))]
    /\ pc' = "author"
    /\ UNCHANGED <<argv, args, returned, fs, fs0, today, exitCode, log, todo, copied, substVars>>

InputAuthor ==
    /\ pc = "author"
    /\ \E raw \in AuthorInputs :
           /\ MetadataAnswered("author", raw)
           /\ config' = [config EXCEPT !.author = get_user_input(raw, DefaultAuthor)]
    /\ pc' = "description"
    /\ UNCHANGED <<argv, args, returned, fs, fs0, today, exitCode, log, todo, copied, substVars>>

InputDescription ==
    /\ pc = "description"
    /\ \E raw \in DescriptionInputs :
           /\ MetadataAnswered("description", raw)
           /\ config' = [config EXCEPT !.description =
                             get_user_input(raw, DefaultDescription(config.framework_config))]
    /\ pc' = "gitlab_url"
    /\ UNCHANGED <<argv, args, returned, fs, fs0, today, exitCode, log, todo, copied, substVars>>

InputGitlabUrl ==
    /\ pc = "gitlab_url"
    /\ \E raw \in GitlabUrlInputs :
           /\ MetadataAnswered("gitlab_url", raw)
           /\ config' = [config EXCEPT !.gitlab_url = get_user_input(raw, DefaultGitlabUrl)]
    /\ pc' = "coverage_threshold"
    /\ UNCHANGED <<argv, args, returned, fs, fs0, today, exitCode, log, todo, copied, substVars>>

\* the last prompt of get_project_config, which then returns the dict
InputCoverageThreshold ==
    /\ pc = "coverage_threshold"
    /\ \E raw \in CoverageThresholdInputs :
           /\ MetadataAnswered("coverage_threshold", raw)
           /\ config' = [config EXCEPT !.coverage_threshold =
                             get_user_input(raw, DefaultCoverageThreshold)]
    /\ pc' = "overwrite_check"
    /\ log' = Append(log, Event("config_resolved", <<>>))
    /\ UNCHANGED <<argv, args, returned, fs, fs0, today, exitCode, todo, copied, substVars>>

\* the positions at which the process waits in input()
AtPrompt ==
    \/ pc \in {"select_framework", "author", "description", "gitlab_url",
               "coverage_threshold", "confirm"}
    \/ pc = "project_name" /\ ~Truthy(args.name)

\* a variant whose handler prints the message and returns without sys.exit(1)
InterruptExitsZero ==
    /\ AtPrompt
    /\ Exit(0)
    /\ log' = Append(log, Event("KeyboardInterrupt", <<>>))
    /\ lastRaw' = <<>>
    /\ UNCHANGED <<argv, args, returned, fs, fs0, config, today, promptVars, todo, copied, substVars>>

\* Ctrl-C while input() waits: KeyboardInterrupt reaches main(), which exits 1
Interrupt ==
    /\ AtPrompt
    /\ Exit(1)
    /\ log' = Append(log, Event("KeyboardInterrupt", <<>>))
    /\ lastRaw' = <<>>
    /\ UNCHANGED <<argv, args, returned, fs, fs0, config, today, promptVars, todo, copied, substVars>>

(***************************************************************************)
(* generate_project after the configuration is resolved.                   *)
(***************************************************************************)
\* output_dir.exists() and any(output_dir.iterdir())
NonEmptyOutput(f) == Exists(f, output_dir) /\ Children(f, output_dir) # {}

OverwriteCheck ==
    /\ pc = "overwrite_check"
    /\ IF NonEmptyOutput(fs)
       THEN pc' = "confirm" /\ UNCHANGED log
       ELSE pc' = "template" /\ log' = Append(log, Event("check_passed", <<>>))
    /\ lastRaw' = <<>>
    /\ UNCHANGED <<argv, args, returned, fs, fs0, config, today, promptVars, exitCode, todo, copied,
                   substVars>>

\* a variant that takes only an explicit n for a refusal
DeclinedOnlyNo(response) == Lower(response) = Chars("n")

\* response.lower() != "y"
Declined(response) == Lower(response) # Chars("y")

\* the confirmation prompt; a declined run returns to main(), which returns
Confirm ==
    /\ pc = "confirm"
    /\ \E raw \in ConfirmInputs :
           /\ Answered("confirm", raw)
           /\ IF Declined(get_user_input(raw, Chars("n")))
              THEN Exit(0) /\ UNCHANGED log
              ELSE /\ pc' = "template"
                   /\ log' = Append(log, Event("check_passed", <<>>))
                   /\ UNCHANGED exitCode
    /\ UNCHANGED <<argv, args, returned, fs, fs0, config, today, attempts, custom, todo, copied, substVars>>

\* self.frameworks_dir / fc.name
framework_dir(cfg) == frameworks_dir \o <<Join(cfg.framework_config.name)>>

\* use_framework_template = not args.base_only
use_framework_template == ~args.base_only

\* a variant that tests the returned list against None, which it never is
NoneCopiedNever(files) == FALSE

\* not copied_files
NoneCopied(files) == files = <<>>

\* a variant that goes from the template writes straight to the README
AfterTemplatesSkipsSkeleton == "generate_readme"

\* the call that follows the template writes in generate_project
AfterTemplates == "create_directory_structure"

\* where generate_project goes on when copy_framework_template has returned files
AfterCopy(files) ==
    IF NoneCopied(files) THEN "base_template" ELSE AfterTemplates

\* a variant that creates the output directory before it looks for the tree
CopyBeginMkdirFirst ==
    /\ pc = "template"
    /\ use_framework_template
    /\ log' = Append(log, Event("copy_framework_template", framework_dir(config)))
    /\ copied' = <<>>
    /\ fs' = Mkdir(fs, output_dir)
    /\ IF ~Exists(fs, framework_dir(config))
       THEN /\ pc' = AfterCopy(<<>>)
            /\ UNCHANGED todo
       ELSE /\ todo' = FilesUnder(fs, framework_dir(config))
            /\ pc' = "copy_loop"
    /\ lastRaw' = <<>>
    /\ UNCHANGED <<argv, args, returned, fs0, config, today, promptVars, exitCode, substVars>>

\* copy_framework_template up to its loop, or to its return when the tree is absent
CopyBegin ==
    /\ pc = "template"
    /\ use_framework_template
    /\ log' = Append(log, Event("copy_framework_template", framework_dir(config)))
    /\ copied' = <<>>
    /\ IF ~Exists(fs, framework_dir(config))
       THEN /\ pc' = AfterCopy(<<>>)
            /\ UNCHANGED <<fs, todo>>
       ELSE /\ fs' = Mkdir(fs, output_dir)
            /\ todo' = FilesUnder(fs, framework_dir(config))
            /\ pc' = "copy_loop"
    /\ lastRaw' = <<>>
    /\ UNCHANGED <<argv, args, returned, fs0, config, today, promptVars, exitCode, substVars>>

\* a variant that keeps only the file name, as file_path.name would
RelativeToName(p, root) == <<p[Len(p)]>>

\* file_path.relative_to(framework_dir)
RelativeTo(p, root) == SubSeq(p, Len(root) + 1, Len(p))

\* a variant that copies the template text as it is, without replace_variables
CopyFileRaw ==
    /\ pc = "copy_loop"
    /\ \E file_path \in todo :
           LET dest_path == output_dir \o RelativeTo(file_path, framework_dir(config))
           IN  /\ fs' = WriteFile(Mkdir(fs, Parent(dest_path)), dest_path,
                                   fs[file_path].content)
               /\ copied' = Append(copied, dest_path)
               /\ todo' = todo \ {file_path}
               /\ log' = Append(log, Event("write_template", dest_path))
    /\ UNCHANGED <<pc, argv, args, returned, fs0, config, today, promptVars, lastRaw, exitCode, substVars>>

\* one iteration of the loop for a regular file, in whatever order rglob yields
CopyFile ==
    /\ pc = "copy_loop"
    /\ \E file_path \in todo :
           LET dest_path == output_dir \o RelativeTo(file_path, framework_dir(config))
               processed_content == replace_variables(fs[file_path].content, config, today)
           IN  /\ fs' = WriteFile(Mkdir(fs, Parent(dest_path)), dest_path, processed_content)
               /\ copied' = Append(copied, dest_path)
               /\ todo' = todo \ {file_path}
               /\ log' = Append(log, Event("write_template", dest_path))
    /\ UNCHANGED <<pc, argv, args, returned, fs0, config, today, promptVars, lastRaw, exitCode, substVars>>

\* the loop ends and copy_framework_template returns copied_files
CopyReturn ==
    /\ pc = "copy_loop"
    /\ todo = {}
    /\ pc' = AfterCopy(copied)
    /\ UNCHANGED <<argv, args, returned, fs, fs0, config, today, promptVars, lastRaw, exitCode, log, todo,
                   copied, substVars>>

output_file == output_dir \o <<"COPILOT_INSTRUCTIONS.md">>

\* a variant that raises when the base template is missing; main() then exits 1
GenerateFromBaseTemplateFatal ==
    /\ \/ pc = "base_template"
       \/ pc = "template" /\ ~use_framework_template
    /\ IF ~Exists(fs, base_template)
       THEN /\ log' = Append(log, Event("generate_from_base_template", base_template))
            /\ Exit(1)
            /\ UNCHANGED <<fs, returned>>
       ELSE /\ fs' = WriteFile(Mkdir(fs, output_dir), output_file,
                               replace_variables(fs[base_template].content, config, today))
            /\ log' = log \o << Event("generate_from_base_template", base_template),
                                Event("read_base", base_template),
                                Event("write_base", output_file) >>
            /\ returned' = Some(output_file)
            /\ pc' = AfterTemplates
            /\ UNCHANGED exitCode
    /\ lastRaw' = <<>>
    /\ UNCHANGED <<argv, args, fs0, config, today, promptVars, todo, copied, substVars>>

\* a variant that creates the output directory before it looks for the template
GenerateFromBaseTemplateMkdirFirst ==
    /\ \/ pc = "base_template"
       \/ pc = "template" /\ ~use_framework_template
    /\ IF ~Exists(fs, base_template)
       THEN /\ log' = Append(log, Event("generate_from_base_template", base_template))
            /\ returned' = None
            /\ fs' = Mkdir(fs, output_dir)
       ELSE /\ fs' = WriteFile(Mkdir(fs, output_dir), output_file,
                               replace_variables(fs[base_template].content, config, today))
            /\ log' = log \o << Event("generate_from_base_template", base_template),
                                Event("read_base", base_template),
                                Event("write_base", output_file) >>
            /\ returned' = Some(output_file)
    /\ pc' = AfterTemplates
    /\ lastRaw' = <<>>
    /\ UNCHANGED <<argv, args, fs0, config, today, promptVars, exitCode, todo, copied, substVars>>

\* generate_from_base_template, called as the fallback or for --base-only
GenerateFromBaseTemplate ==
    /\ \/ pc = "base_template"
       \/ pc = "template" /\ ~use_framework_template
    /\ IF ~Exists(fs, base_template)
       THEN /\ log' = Append(log, Event("generate_from_base_template", base_template))
            /\ returned' = None
            /\ UNCHANGED fs
       ELSE /\ fs' = WriteFile(Mkdir(fs, output_dir), output_file,
                               replace_variables(fs[base_template].content, config, today))
            /\ log' = log \o << Event("generate_from_base_template", base_template),
                                Event("read_base", base_template),
                                Event("write_base", output_file) >>
            /\ returned' = Some(output_file)
    /\ pc' = AfterTemplates
    /\ lastRaw' = <<>>
    /\ UNCHANGED <<argv, args, fs0, config, today, promptVars, exitCode, todo, copied, substVars>>

\* the directories list of create_directory_structure
Directories(language) ==
    IF language = Chars("Python")
    THEN << <<"src", "services">>, <<"src", "config">>, <<"src", "operations">>,
            <<"src", "utilities">>, <<"tests", "services">>, <<"tests", "config">>,
            <<"tests", "operations">>, <<"tests", "utilities">> >>
    ELSE IF language = Chars("TypeScript")
    THEN << <<"src", "services">>, <<"src", "config">>, <<"src", "utils">>,
            <<"src", "types">>, <<"tests", "services">>, <<"tests", "config">>,
            <<"tests", "utils">> >>
    ELSE << <<"src", "services">>, <<"src", "config">>, <<"tests", "services">>,
            <<"tests", "config">> >>

\* a variant that creates the marker file whatever the language
MakeDirectoryAlwaysMarker(f, full_path, language) ==
    Touch(Mkdir(f, full_path), full_path \o <<"__init__.py">>)

\* one iteration of the loop of create_directory_structure
MakeDirectory(f, full_path, language) ==
    IF language = Chars("Python")
    THEN Touch(Mkdir(f, full_path), full_path \o <<"__init__.py">>)
    ELSE Mkdir(f, full_path)

MakeDirectoryEvents(full_path, language) ==
    IF language = Chars("Python")
    THEN << Event("mkdir", full_path), Event("touch", full_path \o <<"__init__.py">>) >>
    ELSE << Event("mkdir", full_path) >>

RECURSIVE MakeDirectories(_, _, _, _)
MakeDirectories(f, dirs, i, language) ==
    IF i > Len(dirs) THEN f
    ELSE MakeDirectories(MakeDirectory(f, output_dir \o dirs[i], language), dirs, i + 1,
                         language)

RECURSIVE MakeDirectoriesEvents(_, _, _)
MakeDirectoriesEvents(dirs, i, language) ==
    IF i > Len(dirs) THEN <<>>
    ELSE MakeDirectoryEvents(output_dir \o dirs[i], language)
             \o MakeDirectoriesEvents(dirs, i + 1, language)

CreateDirectoryStructure ==
    /\ pc = "create_directory_structure"
    /\ LET language == config.framework_config.language
       IN  /\ fs' = MakeDirectories(fs, Directories(language), 1, language)
           /\ log' = log \o MakeDirectoriesEvents(Directories(language), 1, language)
    /\ pc' = "generate_readme"
    /\ UNCHANGED <<argv, args, returned, fs0, config, today, promptVars, lastRaw, exitCode, todo, copied,
                   substVars>>

readme_path == output_dir \o <<"README.md">>

\* generate_readme, after which generate_project and main() return
GenerateReadme ==
    /\ pc = "generate_readme"
    /\ fs' = WriteFile(fs, readme_path, ReadmeContent(config, today))
    /\ log' = Append(log, Event("write_readme", readme_path))
    /\ Exit(0)
    /\ UNCHANGED <<argv, args, returned, fs0, config, today, promptVars, lastRaw, todo, copied, substVars>>

Next ==
    \/ ParseArgs
    \/ Main
    \/ GetFramework
    \/ SelectFramework
    \/ UseProjectName
    \/ InputProjectName
    \/ InputAuthor
    \/ InputDescription
    \/ InputGitlabUrl
    \/ InputCoverageThreshold
    \/ Interrupt
    \/ OverwriteCheck
    \/ Confirm
    \/ CopyBegin
    \/ CopyFile
    \/ CopyReturn
    \/ GenerateFromBaseTemplate
    \/ CreateDirectoryStructure
    \/ GenerateReadme

Spec == Init /\ [][Next]_vars

(***************************************************************************)
(* replace_variables, one iteration of its loop at a time, on template     *)
(* texts and configurations drawn from bounded sets.                       *)
(***************************************************************************)
\* pieces of template text: plain text, tokens, an unrecognized token, a token
\* wrapped around another, and two halves of a token around one with an empty value
Pieces ==
    {Chars("Hello "), Chars("{{PROJECT_NAME}}"), Chars("{{AUTHOR}}"), Chars("{{LANGUAGE}}"),
     Chars("{{UNKNOWN}}"), Chars("{{AUT{{PROJECT_NAME}}R}}"), Chars("{{{GITLAB_URL}}{YEAR}}")}

ShortTemplates ==
    {Concat(ps) : ps \in UNION {[1..n -> Pieces] : n \in 0..MaxPieces}}

\* the text between the tokens of a template that holds every token once
Gaps == {Chars(""), Chars(" - "), Chars("{")}

\* the tokens in insertion order, and in the opposite order
TokenOrders ==
    {[i \in 1..NumTokens |-> i], [i \in 1..NumTokens |-> NumTokens + 1 - i]}

FullTemplate(order, gap) ==
    Concat([i \in 1..NumTokens |-> gap \o Replacements(NoConfig, Today)[order[i]][1]]) \o gap

FullTemplates == {FullTemplate(order, gap) : order \in TokenOrders, gap \in Gaps}

\* every token once, with {{PROJECT_NAME}} between the two halves of a token name
SplitTemplate ==
    Concat([i \in 1..NumTokens |->
               LET token == Replacements(NoConfig, Today)[i][1]
               IN  IF token = Chars("{{PROJECT_NAME}}")
                   THEN Chars("{{AUT{{PROJECT_NAME}}R}}")
                   ELSE token])

\* dicts get_project_config can return: every value but gitlab_url is non-empty
\* and stripped, and is otherwise whatever the user typed
SubstConfigs ==
    {[framework_config |-> fc, project_name |-> nm, author |-> au,
      description |-> Chars("A demo"), gitlab_url |-> url,
      coverage_threshold |-> Chars("80")] :
        fc \in {FRAMEWORKS[i] : i \in 1..Len(FRAMEWORKS)},
        nm \in {Chars("demo"), Chars("HO"), Chars("{{AUTHOR}}")},
        au \in {Chars("Ada"), Chars("{{LANGUAGE}}")},
        url \in {Chars(""), Chars("gitlab.example/x")}}

InitSubst ==
    /\ pc = "replace_variables"
    /\ argv = NoArgs
    /\ returned = NoReturn
    /\ content \in ShortTemplates \cup FullTemplates \cup {SplitTemplate}
    /\ result = content
    /\ idx = 1
    /\ config \in SubstConfigs
    /\ today = Today
    /\ args = NoArgs
    /\ fs = <<>>
    /\ fs0 = fs
    /\ asked = {}
    /\ attempts = 0
    /\ custom = 0
    /\ lastRaw = <<>>
    /\ exitCode = NoExit
    /\ log = <<>>
    /\ todo = {}
    /\ copied = <<>>

runVars == <<argv, args, returned, fs, fs0, config, today, asked, attempts, custom, lastRaw, exitCode,
             log, todo, copied>>

\* result = result.replace(placeholder, value) for the next item of replacements
ReplaceStep ==
    /\ pc = "replace_variables"
    /\ idx <= NumTokens
    /\ result' = ReplaceOne(result, Replacements(config, today)[idx])
    /\ idx' = idx + 1
    /\ UNCHANGED <<pc, content, runVars>>

\* return result
ReplaceReturn ==
    /\ pc = "replace_variables"
    /\ idx > NumTokens
    /\ pc' = "returned"
    /\ UNCHANGED <<content, result, idx, runVars>>

NextSubst == ReplaceStep \/ ReplaceReturn

SpecSubst == InitSubst /\ [][NextSubst]_vars

(***************************************************************************)
(* Properties of a run of main().                                          *)
(***************************************************************************)
Logged(op) == \E i \in DOMAIN log : log[i].op = op

\* C1: when the output directory exists and is non-empty and the answer to the
\* overwrite confirmation is anything other than y or Y (the empty answer
\* included), the run ends at that step with the file system as it was when the
\* process started: nothing is created or modified.
C1_DeclinedLeavesOutput ==
    [][(/\ pc = "confirm"
        /\ "confirm" \in asked'
        /\ Strip(lastRaw') \notin {Chars("y"), Chars("Y")})
       => (/\ NonEmptyOutput(fs0)
           /\ pc' = "exited"
           /\ fs' = fs0)]_vars

C1_Witness ==
    /\ pc = "exited"
    /\ "confirm" \in asked
    /\ lastRaw = Chars("yes")
    /\ NonEmptyOutput(fs0)
    /\ fs = fs0

\* the stage of generate_project an entry of the log belongs to
Stage(e) ==
    CASE e.op = "KeyboardInterrupt" -> 0
      [] e.op = "config_resolved" -> 1
      [] e.op = "check_passed" -> 2
      [] e.op \in {"copy_framework_template", "write_template",
                   "generate_from_base_template", "read_base", "write_base"} -> 3
      [] e.op \in {"mkdir", "touch"} -> 4
      [] e.op = "write_readme" -> 5

SkeletonEvents ==
    MakeDirectoriesEvents(Directories(config.framework_config.language), 1,
                          config.framework_config.language)

\* C2: the steps of generate_project happen in the order configuration, overwrite
\* check, template writes, skeleton, README; nothing is written before the
\* overwrite check has passed; and a run that ends without being cancelled has
\* resolved the configuration first, passed the check second, created every
\* skeleton directory and marker file right before the README, and written the
\* README last.
C2_WriteOrder ==
    /\ \A i, j \in DOMAIN log :
           (i < j /\ Stage(log[j]) # 0) => Stage(log[i]) <= Stage(log[j])
    /\ ~Logged("check_passed") => fs = fs0
    /\ (pc = "exited" /\ Logged("check_passed"))
           => /\ log[1].op = "config_resolved"
              /\ log[2].op = "check_passed"
              /\ log[Len(log)].op = "write_readme"
              /\ Len(log) > Len(SkeletonEvents) + 2
              /\ SubSeq(log, Len(log) - Len(SkeletonEvents), Len(log) - 1) = SkeletonEvents

C2_Witness ==
    /\ pc = "exited"
    /\ "confirm" \in asked
    /\ Logged("write_template")
    /\ Logged("touch")
    /\ log[Len(log)].op = "write_readme"

PastTemplates ==
    pc \in {"create_directory_structure", "generate_readme"} \/ Logged("write_readme")

\* C3: generate_from_base_template is called exactly when use_framework_template
\* is false or copy_framework_template returned no file; copy_framework_template
\* is never called when use_framework_template is false; and when the copy wrote
\* a file the base template is neither read nor written.
C3_BaseTemplateIffNoCopy ==
    /\ Logged("copy_framework_template") => ~args.base_only
    /\ Logged("generate_from_base_template")
           => (args.base_only \/ (Logged("copy_framework_template") /\ copied = <<>>))
    /\ PastTemplates
           => (Logged("generate_from_base_template") <=> (args.base_only \/ copied = <<>>))
    /\ copied # <<>>
           => /\ ~Logged("generate_from_base_template")
              /\ ~Logged("read_base")
              /\ ~Logged("write_base")

\* the fallback taken for a framework directory that exists and holds no file
C3_Witness ==
    /\ PastTemplates
    /\ Logged("copy_framework_template")
    /\ Logged("write_base")
    /\ Exists(fs0, framework_dir(config))
    /\ copied = <<>>

UnknownKeyGiven == argv.framework # None /\ argv.framework[1] \notin FrameworkKeys

DeclinedRun ==
    /\ pc = "exited"
    /\ "confirm" \in asked
    /\ ~Logged("check_passed")
    /\ ~Logged("KeyboardInterrupt")

\* C5 (as amended): a run interrupted during a prompt ends with exit code 1 and
\* the file system untouched; a run whose overwrite confirmation was declined
\* ends with the file system untouched and exit code 0.
C5_Cancellation ==
    /\ Logged("KeyboardInterrupt") => (pc = "exited" /\ exitCode = 1 /\ fs = fs0)
    /\ DeclinedRun => (exitCode = 0 /\ fs = fs0)

C5_Witness ==
    /\ DeclinedRun
    /\ lastRaw = Chars("")
    /\ exitCode = 0
    /\ fs = fs0

\* C5 (as claimed): a cancellation, by a declined confirmation or by an
\* interrupt during a prompt, ends the process with exit code 1 and no write; a
\* declined confirmation never ends in exit code 0.
C5_DeclinedExitsOne ==
    (DeclinedRun \/ Logged("KeyboardInterrupt")) => (exitCode = 1 /\ fs = fs0)

\* a prompt of get_project_config is answered in this step
NowAnswered(prompt) == prompt \notin asked /\ prompt \in asked'

RegisteredKeys ==
    << Chars("python-fastapi"), Chars("typescript-nodejs"), Chars("python-behave") >>

Numerals ==
    << {Chars("1"), Chars("+1")}, {Chars("2"), Chars("+2")}, {Chars("3"), Chars("+3")} >>

\* an input is read by the loop of select_framework in this step
SelectionStep == pc = "select_framework" /\ pc' # "exited"

\* C9 (as amended): select_framework returns only in response to an input that,
\* stripped, is empty (and stands for the default 1) or parses as an integer i
\* with 1 <= i <= 3, and then returns the i-th FrameworkConfig in registration
\* order (python-fastapi, typescript-nodejs, python-behave); every other input is
\* rejected, changes no state and is followed by another prompt; the loop ends at
\* the first accepted input.
C9_SelectByIndex ==
    [][SelectionStep =>
          LET a == Strip(lastRaw')
          IN  /\ (pc' = "project_name")
                     <=> (a = <<>> \/ \E i \in 1..3 : a \in Numerals[i])
              /\ a = <<>> => config'.framework_config.name = RegisteredKeys[1]
              /\ \A i \in 1..3 :
                     a \in Numerals[i]
                        => (/\ config'.framework_config.name = RegisteredKeys[i]
                            /\ config'.framework_config = FRAMEWORKS[i])
              /\ pc' # "project_name"
                     => (pc' = "select_framework" /\ config' = config /\ fs' = fs)
      ]_vars

C9_Witness ==
    /\ pc = "project_name"
    /\ "framework" \in asked
    /\ lastRaw = Chars(" 3 ")
    /\ config.framework_config.name = Chars("python-behave")

\* C9 (as claimed): select_framework returns only in response to an input that
\* parses as an integer i with 1 <= i <= 3; every non-numeric input is rejected.
C9_OnlyIntegersAccepted ==
    [][(SelectionStep /\ pc' = "project_name")
           => \E i \in 1..3 : Strip(lastRaw') \in Numerals[i]]_vars

\* copy_framework_template is called in this step and finds no framework tree
CopyOfAbsentTree ==
    /\ pc = "template"
    /\ ~args.base_only
    /\ pc' # pc
    /\ ~Exists(fs, frameworks_dir \o <<Join(config.framework_config.name)>>)

\* C10: copy_framework_template for a framework whose template tree does not
\* exist returns an empty list and leaves the file system unchanged; the next
\* step of generate_project is the call of generate_from_base_template, which
\* writes COPILOT_INSTRUCTIONS.md when the base template file exists.
C10_AbsentTreeFallsBack ==
    [][/\ CopyOfAbsentTree
          => (/\ fs' = fs
              /\ copied' = <<>>
              /\ pc' = "base_template"
              /\ exitCode' = NoExit)
       /\ pc = "base_template"
          => (/\ Len(log') > Len(log)
              /\ log'[Len(log) + 1].op = "generate_from_base_template"
              /\ exitCode' = NoExit
              /\ Exists(fs, base_template)
                    => (/\ IsFile(fs', output_dir \o <<"COPILOT_INSTRUCTIONS.md">>)
                        /\ log'[Len(log')].op = "write_base"))
      ]_vars

C10_Witness ==
    /\ pc = "create_directory_structure"
    /\ Logged("copy_framework_template")
    /\ ~Exists(fs, frameworks_dir \o <<Join(config.framework_config.name)>>)
    /\ ~Exists(fs0, output_dir)
    /\ IsFile(fs, output_dir \o <<"COPILOT_INSTRUCTIONS.md">>)

(***************************************************************************)
(* Properties of replace_variables.                                        *)
(***************************************************************************)
Tokens == [k \in 1..NumTokens |-> Replacements(NoConfig, Today)[k][1]]

\* text from position i on, with every occurrence of a token of reps in text
\* itself replaced by its value, left to right, values never searched
RECURSIVE SimultaneousFrom(_, _, _)
SimultaneousFrom(text, i, reps) ==
    LET hits == {j \in i..Len(text) : \E k \in DOMAIN reps : StartsWithAt(text, j, reps[k][1])}
    IN  IF hits = {} THEN SubSeq(text, i, Len(text))
        ELSE LET j == CHOOSE h \in hits : \A g \in hits : h <= g
                 k == CHOOSE n \in DOMAIN reps : StartsWithAt(text, j, reps[n][1])
             IN  SubSeq(text, i, j - 1) \o reps[k][2]
                     \o SimultaneousFrom(text, j + Len(reps[k][1]), reps)

Simultaneous(text) == SimultaneousFrom(text, 1, Replacements(config, today))

\* C6 (as claimed): replace_variables performs a single, non-recursive pass: the
\* result is the original content with each occurrence of a recognized token
\* replaced by its value simultaneously; an inserted value is never matched by
\* a later token, and no token is formed across the boundary of an inserted value.
C6_SinglePass ==
    pc = "returned" => result = Simultaneous(content)

EachTokenOnce(text) == \A k \in 1..NumTokens : CountFrom(text, 1, Tokens[k]) = 1

NoTokenIn(text) == \A k \in 1..NumTokens : ~Contains(text, Tokens[k])

BraceFree(text) == \A i \in 1..Len(text) : text[i] \notin {"{", "}"}

\* the text of a template outside its tokens
Outside(text) == SimultaneousFrom(text, 1, [k \in 1..NumTokens |-> <<Tokens[k], <<>>>>])

ValuesBraceFree ==
    \A k \in 1..NumTokens : BraceFree(Replacements(config, today)[k][2])

\* C7 (as amended): for a template that holds each of the 14 tokens exactly once
\* and no brace outside them, and a config none of whose values holds a brace,
\* the output of replace_variables holds no recognized token, and each value
\* stands exactly where its token stood, with the text between tokens unchanged.
C7_AllTokensReplaced ==
    (/\ pc = "returned"
     /\ EachTokenOnce(content)
     /\ BraceFree(Outside(content))
     /\ ValuesBraceFree)
        => (NoTokenIn(result) /\ result = Simultaneous(content))

C7_Witness ==
    /\ pc = "returned"
    /\ content = FullTemplate([i \in 1..NumTokens |-> NumTokens + 1 - i], Chars(" - "))
    /\ config.project_name = Chars("demo")
    /\ config.author = Chars("Ada")
    /\ config.gitlab_url = Chars("")
    /\ ValuesBraceFree
    /\ NoTokenIn(result)
    /\ result # content

\* C7 (as claimed): for a template that holds each of the 14 tokens exactly once
\* and every config get_project_config can produce, the output holds no
\* recognized token and each value stands exactly where its token stood.
C7_EveryConfig ==
    (pc = "returned" /\ EachTokenOnce(content))
        => (NoTokenIn(result) /\ result = Simultaneous(content))

(***************************************************************************)
(* Properties of the template steps.                                       *)
(***************************************************************************)
\* the template files of the chosen framework when the process started
TemplateFilesAtStart == FilesUnder(fs0, frameworks_dir \o <<Join(config.framework_config.name)>>)

\* where a template file belongs in the output directory
Mirror(q) == output_dir \o SubSeq(q, Len(frameworks_dir) + 2, Len(q))

\* the paths of the write_template entries of a log, in order
RECURSIVE WrittenPaths(_)
WrittenPaths(l) ==
    IF l = <<>> THEN <<>>
    ELSE IF Head(l).op = "write_template"
         THEN <<Head(l).path>> \o WrittenPaths(Tail(l))
         ELSE WrittenPaths(Tail(l))

\* C11: copy_framework_template on an existing template tree writes, for every
\* regular file at relative path p of the tree, output_dir/p with the content
\* replace_variables gives for the template file (Hello {{PROJECT_NAME}} becomes
\* Hello demo for the project demo); each file is written into a directory that
\* exists; nothing outside output_dir is created, changed or removed, the
\* template files included; and the returned list holds one entry per file
\* written, in the order written.
C11_CopyMirrorsTemplate ==
    [][/\ (pc = "copy_loop" /\ pc' = "copy_loop")
            => (/\ Len(copied') = Len(copied) + 1
                /\ LET dest == copied'[Len(copied')]
                   IN  /\ IsPrefix(output_dir, dest)
                       /\ IsFile(fs', dest)
                       /\ \A n \in 1..(Len(dest) - 1) :
                              /\ Exists(fs', SubSeq(dest, 1, n))
                              /\ fs'[SubSeq(dest, 1, n)].kind = "dir")
       /\ (pc = "copy_loop" /\ pc' # "copy_loop")
            => (/\ \A q \in TemplateFilesAtStart :
                       /\ IsFile(fs', Mirror(q))
                       /\ fs'[Mirror(q)].content =
                              replace_variables(fs0[q].content, config, today)
                /\ (/\ config.project_name = Chars("demo")
                    /\ IsFile(fs0, frameworks_dir
                                      \o <<Join(config.framework_config.name), "foo", "bar.txt">>))
                       => fs'[output_dir \o <<"foo", "bar.txt">>].content = Chars("Hello demo")
                /\ \A q \in DOMAIN fs0 : Exists(fs', q)
                /\ \A q \in DOMAIN fs' :
                       ~IsPrefix(output_dir, q) => (Exists(fs0, q) /\ fs'[q] = fs0[q])
                /\ copied' = WrittenPaths(log')
                /\ Len(copied') = Cardinality(TemplateFilesAtStart)
                /\ {copied'[n] : n \in 1..Len(copied')} =
                       {Mirror(q) : q \in TemplateFilesAtStart})
      ]_vars

C11_Witness ==
    /\ pc = "create_directory_structure"
    /\ config.project_name = Chars("demo")
    /\ Len(copied) = 2
    /\ IsFile(fs, output_dir \o <<"foo", "bar.txt">>)
    /\ fs[output_dir \o <<"foo", "bar.txt">>].content = Chars("Hello demo")
    /\ IsFile(fs, output_dir \o <<"old.txt">>)

\* generate_from_base_template is called in this step
BaseTemplateCall == pc = "base_template" \/ (pc = "template" /\ args.base_only)

InstructionsPath == output_dir \o <<"COPILOT_INSTRUCTIONS.md">>

\* C12: generate_from_base_template returns None and writes nothing (the output
\* directory is not created) when COPILOT_INSTRUCTIONS.template.md does not
\* exist; otherwise it creates the output directory if needed, writes
\* replace_variables of the template text to output_dir/COPILOT_INSTRUCTIONS.md
\* and returns that path, and the base template and every other file are as before.
C12_BaseTemplateResult ==
    [][BaseTemplateCall =>
          /\ ~Exists(fs, script_dir \o <<"COPILOT_INSTRUCTIONS.template.md">>)
                => (returned' = None /\ fs' = fs)
          /\ Exists(fs, script_dir \o <<"COPILOT_INSTRUCTIONS.template.md">>)
                => (/\ returned' = Some(InstructionsPath)
                    /\ Exists(fs', output_dir)
                    /\ fs'[output_dir].kind = "dir"
                    /\ IsFile(fs', InstructionsPath)
                    /\ fs'[InstructionsPath].content =
                           replace_variables(
                               fs[script_dir \o <<"COPILOT_INSTRUCTIONS.template.md">>].content,
                               config, today)
                    /\ (/\ config.project_name = Chars("demo")
                        /\ config.framework_config.framework = Chars("FastAPI")
                        /\ config.coverage_threshold = Chars("80"))
                          => fs'[InstructionsPath].content
                                 = Chars("# demo (FastAPI): at least 80%\n")
                    /\ \A q \in DOMAIN fs : Exists(fs', q)
                    /\ \A q \in DOMAIN fs' \ {output_dir, InstructionsPath} :
                           Exists(fs, q) /\ fs'[q] = fs[q])
      ]_vars

C12_Witness ==
    /\ returned = Some(InstructionsPath)
    /\ ~Exists(fs0, output_dir)
    /\ pc = "create_directory_structure"
    /\ IsFile(fs, InstructionsPath)
    /\ fs[InstructionsPath].content = Chars("# demo (FastAPI): at least 80%\n")
    /\ fs[script_dir \o <<"COPILOT_INSTRUCTIONS.template.md">>]
           = fs0[script_dir \o <<"COPILOT_INSTRUCTIONS.template.md">>]

(***************************************************************************)
(* create_directory_structure, one iteration of its loop at a time and     *)
(* called twice on the same output directory, followed by generate_readme, *)
(* for the registered frameworks and for FrameworkConfig values that are   *)
(* not registered.                                                         *)
(***************************************************************************)
LayoutFrameworks ==
    {FRAMEWORKS[i] : i \in 1..Len(FRAMEWORKS)} \cup
    {FrameworkConfig(Chars("custom"), Chars("Custom"), language, framework, package_manager,
                     test_framework, Chars("cov"), Chars("img"), Chars("1.0"),
                     Chars("A custom stack")) :
        language \in {Chars("Python"), Chars("TypeScript"), Chars("Go"), Chars("python")},
        framework \in {Chars("FastAPI"), Chars("Express"), Chars("Behave"), Chars("Flask")},
        package_manager \in {Chars("Poetry"), Chars("npm/yarn"), Chars("pip")},
        test_framework \in {Chars("pytest"), Chars("Jest"), Chars("Behave + pytest"),
                            Chars("unittest")}}

\* the output directory: absent, empty, holding a file, or holding a part of
\* the skeleton with a marker file that has content
LayoutOutputs == {"absent", "empty", "non-empty", "partial"}

LayoutFs(out) ==
    LET f0 == Mkdir(<<>>, Parent(output_dir))
        f1 == IF out = "absent" THEN f0 ELSE Mkdir(f0, output_dir)
    IN  IF out = "non-empty"
        THEN WriteFile(f1, output_dir \o <<"old.txt">>, Chars("kept"))
        ELSE IF out = "partial"
        THEN WriteFile(Mkdir(Mkdir(f1, output_dir \o <<"src", "services">>),
                             output_dir \o <<"tests">>),
                       output_dir \o <<"src", "services", "__init__.py">>, Chars("x = 1"))
        ELSE f1

InitLayout ==
    /\ pc = "first_call"
    /\ \E fc \in LayoutFrameworks :
           config = [framework_config |-> fc, project_name |-> Chars("demo"),
                     author |-> Chars("Ada"), description |-> Chars("A demo"),
                     gitlab_url |-> Chars(""), coverage_threshold |-> Chars("80")]
    /\ \E out \in LayoutOutputs : fs = LayoutFs(out)
    /\ fs0 = fs
    /\ idx = 1
    /\ today = Today
    /\ argv = NoArgs
    /\ args = NoArgs
    /\ returned = NoReturn
    /\ asked = {}
    /\ attempts = 0
    /\ custom = 0
    /\ lastRaw = <<>>
    /\ exitCode = NoExit
    /\ log = <<>>
    /\ todo = {}
    /\ copied = <<>>
    /\ content = <<>>
    /\ result = <<>>

layoutIdle == <<argv, args, returned, config, today, asked, attempts, custom, lastRaw,
                exitCode, log, todo, copied, content, result>>

\* one iteration of the loop of create_directory_structure
MakeDirectoryStep ==
    /\ pc \in {"first_call", "second_call"}
    /\ LET language == config.framework_config.language
       IN  /\ idx <= Len(Directories(language))
           /\ fs' = MakeDirectory(fs, output_dir \o Directories(language)[idx], language)
    /\ idx' = idx + 1
    /\ UNCHANGED <<pc, fs0, layoutIdle>>

\* create_directory_structure returns; the caller calls it again, once, and
\* fs0 then is the file system at the start of the second call
SkeletonReturn ==
    /\ pc \in {"first_call", "second_call"}
    /\ idx > Len(Directories(config.framework_config.language))
    /\ IF pc = "first_call"
       THEN pc' = "second_call" /\ idx' = 1 /\ fs0' = fs
       ELSE pc' = "generate_readme" /\ UNCHANGED <<idx, fs0>>
    /\ UNCHANGED <<fs, layoutIdle>>

\* generate_readme
LayoutReadme ==
    /\ pc = "generate_readme"
    /\ fs' = WriteFile(fs, readme_path, ReadmeContent(config, today))
    /\ pc' = "done"
    /\ UNCHANGED <<idx, fs0, layoutIdle>>

NextLayout == MakeDirectoryStep \/ SkeletonReturn \/ LayoutReadme

SpecLayout == InitLayout /\ [][NextLayout]_vars

(***************************************************************************)
(* Properties of create_directory_structure and generate_readme.           *)
(***************************************************************************)
PythonDirectories ==
    { <<"src", "services">>, <<"src", "config">>, <<"src", "operations">>,
      <<"src", "utilities">>, <<"tests", "services">>, <<"tests", "config">>,
      <<"tests", "operations">>, <<"tests", "utilities">> }

TypeScriptDirectories ==
    { <<"src", "services">>, <<"src", "config">>, <<"src", "utils">>, <<"src", "types">>,
      <<"tests", "services">>, <<"tests", "config">>, <<"tests", "utils">> }

OtherDirectories ==
    { <<"src", "services">>, <<"src", "config">>, <<"tests", "services">>,
      <<"tests", "config">> }

ExpectedDirectories ==
    IF config.framework_config.language = Chars("Python") THEN PythonDirectories
    ELSE IF config.framework_config.language = Chars("TypeScript") THEN TypeScriptDirectories
    ELSE OtherDirectories

\* the first call of create_directory_structure has run its loop to the end
FirstCallDone ==
    pc = "first_call" /\ idx > Len(Directories(config.framework_config.language))

\* C13: create_directory_structure creates a directory set fixed by the
\* language alone: the 8 directories for Python, the 7 for TypeScript, the 4 for
\* any other language; for Python every one of them holds a marker file
\* __init__.py, empty when the call created it; for any other language no file
\* is created; and nothing else appears or changes.
C13_SkeletonByLanguage ==
    FirstCallDone =>
        /\ Cardinality(PythonDirectories) = 8
        /\ Cardinality(TypeScriptDirectories) = 7
        /\ Cardinality(OtherDirectories) = 4
        /\ \A d \in ExpectedDirectories :
               Exists(fs, output_dir \o d) /\ fs[output_dir \o d].kind = "dir"
        /\ \A q \in DOMAIN fs0 : Exists(fs, q) /\ fs[q] = fs0[q]
        /\ \A q \in DOMAIN fs \ DOMAIN fs0 :
               \/ q \in {output_dir, output_dir \o <<"src">>, output_dir \o <<"tests">>}
               \/ q \in {output_dir \o d : d \in ExpectedDirectories}
               \/ /\ config.framework_config.language = Chars("Python")
                  /\ q \in {output_dir \o d \o <<"__init__.py">> : d \in ExpectedDirectories}
                  /\ fs[q] = File(<<>>)
        /\ config.framework_config.language = Chars("Python")
               => \A d \in ExpectedDirectories : IsFile(fs, output_dir \o d \o <<"__init__.py">>)

C13_Witness ==
    /\ FirstCallDone
    /\ config.framework_config.language = Chars("Go")
    /\ ~Exists(fs0, output_dir)
    /\ Exists(fs, output_dir \o <<"tests", "config">>)
    /\ ~Exists(fs, output_dir \o <<"src", "utils">>)

\* C14: create_directory_structure is idempotent: a second call on the same
\* output directory with the same language leaves the directories, the files
\* and the content of every file exactly as after the first call; directories
\* and marker files that exist before a call keep their content.
C14_SkeletonIdempotent ==
    /\ pc = "second_call" => fs = fs0
    /\ pc = "first_call" => \A q \in DOMAIN fs0 : Exists(fs, q) /\ fs[q] = fs0[q]

C14_Witness ==
    /\ pc = "generate_readme"
    /\ config.framework_config.language = Chars("Python")
    /\ fs = fs0
    /\ fs[output_dir \o <<"src", "services", "__init__.py">>].content = Chars("x = 1")
    /\ fs[output_dir \o <<"src", "config", "__init__.py">>].content = <<>>

Readme == fs[output_dir \o <<"README.md">>].content

\* the commands block of a README with the given three commands
Commands(install, test, run) ==
    Chars("<U+0060><U+0060><U+0060>bash\n# Install dependencies\n") \o install
        \o Chars("\n\n# Run tests\n") \o test
        \o Chars("\n\n# Run application\n") \o run \o Chars("\n<U+0060><U+0060><U+0060>\n")

\* C15: the README generate_readme writes holds, for each registered framework,
\* the install, test and run commands of the lookup tables for its package
\* manager, test framework and framework; the placeholder comment stands for a
\* command only when the value matches no table row, so no registered
\* framework gets a placeholder.
C15_ReadmeCommands ==
    pc = "done" =>
        LET fc == config.framework_config
        IN  /\ fc.name = Chars("python-fastapi")
                => Contains(Readme, Commands(Chars("poetry install"),
                                             Chars("poetry run pytest --cov=src"),
                                             Chars("poetry run uvicorn src.main:app --reload")))
            /\ fc.name = Chars("typescript-nodejs")
                => Contains(Readme, Commands(Chars("npm install  # or: yarn install"),
                                             Chars("npm test  # or: yarn test"),
                                             Chars("npm start  # or: yarn start")))
            /\ fc.name = Chars("python-behave")
                => Contains(Readme, Commands(Chars("poetry install"),
                                             Chars("poetry run behave && poetry run pytest"),
                                             Chars("poetry run python src/main.py")))
            /\ Contains(Readme, Chars("# Install dependencies\n# Install dependencies\n"))
                   <=> fc.package_manager \notin {Chars("Poetry"), Chars("npm/yarn")}
            /\ Contains(Readme, Chars("# Run tests\n# Run tests\n"))
                   <=> fc.test_framework \notin {Chars("pytest"), Chars("Jest"),
                                                 Chars("Behave + pytest")}
            /\ Contains(Readme, Chars("# Run application\n# Run application\n"))
                   <=> fc.framework \notin {Chars("FastAPI"), Chars("Express"), Chars("Behave")}

C15_Witness ==
    /\ pc = "done"
    /\ config.framework_config.name = Chars("python-behave")
    /\ Contains(Readme, Chars("# Run tests\npoetry run behave && poetry run pytest\n"))

(***************************************************************************)
(* Properties of the tree a completed run leaves.                          *)
(***************************************************************************)
\* generate_project has returned after its last step
Completed == pc = "exited" /\ Logged("write_readme")

ReadmePath == output_dir \o <<"README.md">>

\* C16 (as amended): after a completed run that used the framework template,
\* every template file at relative path p other than README.md at the root of
\* the tree is present at output_dir/p with the content replace_variables
\* gives, template files named __init__.py inside skeleton directories
\* included; output_dir/README.md holds the generated README, which replaces a
\* README.md copied from the template; the skeleton step only adds to the tree
\* and the README step changes nothing but README.md.
C16_MirrorExceptReadme ==
    /\ []((Completed /\ copied # <<>>)
            => (/\ \A q \in TemplateFilesAtStart :
                       Mirror(q) # ReadmePath
                          => (/\ IsFile(fs, Mirror(q))
                              /\ fs[Mirror(q)].content =
                                     replace_variables(fs0[q].content, config, today))
                /\ IsFile(fs, ReadmePath)
                /\ Contains(fs[ReadmePath].content, Chars("\n## Stack\n"))))
    /\ [][/\ pc = "create_directory_structure"
               => \A q \in DOMAIN fs : Exists(fs', q) /\ fs'[q] = fs[q]
          /\ pc = "generate_readme"
               => \A q \in DOMAIN fs \ {ReadmePath} : Exists(fs', q) /\ fs'[q] = fs[q]
         ]_vars

C16_Witness ==
    /\ Completed
    /\ config.framework_config.language = Chars("Python")
    /\ config.author = Chars("Ada")
    /\ Len(copied) = 2
    /\ IsFile(fs0, frameworks_dir \o <<Join(config.framework_config.name), "README.md">>)
    /\ IsFile(fs, output_dir \o <<"src", "services", "__init__.py">>)
    /\ fs[output_dir \o <<"src", "services", "__init__.py">>].content = Chars("# Ada")
    /\ Contains(fs[ReadmePath].content, Chars("\n## Stack\n"))

\* C16 (as claimed): after a completed run that used the framework template,
\* every template file at relative path p, a README.md at the root of the tree
\* included, is present at output_dir/p with the content replace_variables gives.
C16_OutputMirrorsTemplate ==
    (Completed /\ copied # <<>>)
        => \A q \in TemplateFilesAtStart :
               /\ IsFile(fs, Mirror(q))
               /\ fs[Mirror(q)].content = replace_variables(fs0[q].content, config, today)

\* neither template exists and the output directory is yet to be created
NothingToCopy ==
    /\ ~Exists(fs0, frameworks_dir \o <<Join(config.framework_config.name)>>)
    /\ ~Exists(fs0, script_dir \o <<"COPILOT_INSTRUCTIONS.template.md">>)
    /\ ~Exists(fs0, output_dir)

\* C18: a missing template is not fatal: when neither the framework tree nor
\* the base template exists, with or without --base-only, and the output
\* directory does not exist, a run that passed the overwrite check ends with
\* exit code 0; the output directory exists when README.md is written; and the
\* run created exactly the skeleton of the language (with marker files for
\* Python) and README.md, and no COPILOT_INSTRUCTIONS.md.
C18_MissingTemplatesNotFatal ==
    /\ []((NothingToCopy /\ pc = "exited" /\ Logged("check_passed"))
            => (/\ exitCode = 0
                /\ Logged("write_readme")
                /\ ~Exists(fs, InstructionsPath)
                /\ IsFile(fs, ReadmePath)
                /\ \A q \in DOMAIN fs0 : Exists(fs, q) /\ fs[q] = fs0[q]
                /\ DOMAIN fs \ DOMAIN fs0 =
                       {output_dir, output_dir \o <<"src">>, output_dir \o <<"tests">>,
                        ReadmePath}
                       \cup {output_dir \o d : d \in ExpectedDirectories}
                       \cup (IF config.framework_config.language = Chars("Python")
                             THEN {output_dir \o d \o <<"__init__.py">> :
                                       d \in ExpectedDirectories}
                             ELSE {})))
    /\ [][(NothingToCopy /\ pc = "generate_readme")
              => (Exists(fs, output_dir) /\ fs[output_dir].kind = "dir")]_vars

C18_Witness ==
    /\ NothingToCopy
    /\ Completed
    /\ ~args.base_only
    /\ exitCode = 0
    /\ config.framework_config.language = Chars("TypeScript")
    /\ Exists(fs, output_dir \o <<"src", "types">>)
    /\ ~Exists(fs, InstructionsPath)

(***************************************************************************)
(* truncate_string of utilities/string_utils.py, on values and limits      *)
(* drawn from bounded sets: content is value, idx is max_length, result is *)
(* what the call returns.                                                  *)
(***************************************************************************)
TruncateValues == UNION {[1..n -> {"a", "b"}] : n \in 0..MaxValueLen}

\* max_length is an int: negative, zero, and positive values
TruncateLimits == (0 - 2)..MaxLimit

\* value[:k], with Python's reading of a negative k as counted from the end
SliceTo(value, k) ==
    IF k >= 0
    THEN SubSeq(value, 1, IF k < Len(value) THEN k ELSE Len(value))
    ELSE SubSeq(value, 1, IF Len(value) + k > 0 THEN Len(value) + k ELSE 0)

truncate_string(value, max_length) ==
    IF Len(value) <= max_length THEN value
    ELSE SliceTo(value, max_length - 3) \o Chars("...")

InitTruncate ==
    /\ pc = "truncate_string"
    /\ content \in TruncateValues
    /\ idx \in TruncateLimits
    /\ result = <<>>
    /\ config = NoConfig
    /\ today = Today
    /\ argv = NoArgs
    /\ args = NoArgs
    /\ returned = NoReturn
    /\ fs = <<>>
    /\ fs0 = fs
    /\ asked = {}
    /\ attempts = 0
    /\ custom = 0
    /\ lastRaw = <<>>
    /\ exitCode = NoExit
    /\ log = <<>>
    /\ todo = {}
    /\ copied = <<>>

TruncateString ==
    /\ pc = "truncate_string"
    /\ result' = truncate_string(content, idx)
    /\ pc' = "truncated"
    /\ UNCHANGED <<content, idx, runVars>>

NextTruncate == TruncateString

SpecTruncate == InitTruncate /\ [][NextTruncate]_vars

\* C17 (as claimed): truncate_string returns value unchanged whenever
\* len(value) <= max_length, and for every longer value and every max_length
\* it returns exactly max_length characters that end with ... and begin with
\* the first max_length - 3 characters of value; the result is never longer
\* than max_length.
C17_TruncateWithinLimit ==
    pc = "truncated" =>
        /\ Len(content) <= idx => result = content
        /\ Len(content) > idx
              => (/\ Len(result) = idx
                  /\ SubSeq(result, Len(result) - 2, Len(result)) = <<".", ".", ".">>
                  /\ \A n \in 1..(idx - 3) : result[n] = content[n])
        /\ Len(result) <= idx

====
